---- MODULE Spec2Model ----
(***************************************************************************)
(* Webhook dispatch pipeline, conversation state store, rate limiter,      *)
(* rule engines, lead store and rules cache of whatsapp-agent.             *)
(*                                                                         *)
(* Strings that the code parses are sequences of tokens: a token is a word *)
(* (a maximal run of text without a delimiter) or one of the delimiters    *)
(* the code splits on.  Optional values (None / absent dict key) are       *)
(* sequences of length 0 or 1.  Time is the integer number of seconds      *)
(* since a Monday 00:00 of the local clock.                                *)
(***************************************************************************)
EXTENDS Integers, Sequences, FiniteSets, TLC

VARIABLES
  now,          \* the clock read by time.time() / datetime.now(TZ)
  seen_ids,     \* MemoryStore.seen_ids
  user_state,   \* MemoryStore.user_state : key -> conversation state
  events,       \* RateLimiter.events : key -> queue of timestamps
  leads,        \* rows of table "leads", in insertion (id) order
  rules_json,   \* Agent.rules_json per agent id
  cache,        \* rules_engine._CACHE : agent id -> <<>> or <<[ts, rules]>>
  config,       \* process environment: ADMIN_NUMBER, ALLOW_SIMULATOR, DEFAULT_CLIENT_ID
  turn,         \* the call handled by the latest step: inputs, calls made, response
  conv,         \* history: per (agent, sender), the state dict as the rule engine
                \* leaves it when every turn's dict is handed to the next turn
  hist,         \* history: message ids delivered so far, and per sender the
                \* timestamps of the deliveries that passed the rate limiter
  inflight      \* the webhook requests in flight: where each one is suspended

vars ==
  <<now, seen_ids, user_state, events, leads, rules_json, cache, config, turn, conv, hist,
    inflight>>

----------------------------------------------------------------------------
(* Bounds of the model *)

MaxNow == 76000          \* the clock of a conversation does not advance past this second
MaxBurst == 18           \* seconds the clock advances in the rate-limit specification
MaxOther == 1            \* deliveries of the second sender in the rate-limit specification
MaxLeadRows == 2         \* rows the lead table may hold in the lead-store specification
MaxTurns == 2            \* deliveries per sender that pass the filters, outside the rate-limit specification
MaxPauseTurns == 3       \* deliveries of the sender in the specification of the handoff pause

(* Generic helpers *)

None == <<>>
Some(x) == <<x>>
IsSome(o) == Len(o) > 0

Max(a, b) == IF a >= b THEN a ELSE b
Min(a, b) == IF a <= b THEN a ELSE b

RECURSIVE SumSeq(_)
SumSeq(s) == IF s = <<>> THEN 0 ELSE Head(s) + SumSeq(Tail(s))

RECURSIVE Flatten(_, _)
\* sep.join(parts)
Flatten(parts, sep) ==
  IF parts = <<>> THEN <<>>
  ELSE IF Len(parts) = 1 THEN parts[1]
  ELSE parts[1] \o sep \o Flatten(Tail(parts), sep)

RECURSIVE SplitAcc(_, _, _, _)
SplitAcc(s, delims, cur, acc) ==
  IF s = <<>> THEN Append(acc, cur)
  ELSE IF Head(s) \in delims THEN SplitAcc(Tail(s), delims, <<>>, Append(acc, cur))
  ELSE SplitAcc(Tail(s), delims, Append(cur, Head(s)), acc)

\* str.split on any of the delimiter tokens; empty parts are kept
Split(s, delims) == SplitAcc(s, delims, <<>>, <<>>)

RECURSIVE JoinStr(_)
\* the text as one string
JoinStr(s) == IF s = <<>> THEN "" ELSE Head(s) \o JoinStr(Tail(s))

\* [p.strip() for p in parts if p.strip()]
NonEmpty(parts) == SelectSeq(parts, LAMBDA p : p /= <<>>)

----------------------------------------------------------------------------
(* Text vocabulary *)

DigitsOf(tok) ==
  CASE tok = "31999998888" -> 11
    [] tok = "31888887777" -> 11
    [] tok = "123" -> 3
    [] tok \in {"1", "2", "3"} -> 1
    [] OTHER -> 0

\* str.lower() on a token
LowerTok(tok) ==
  CASE tok = "MENU" -> "menu"
    [] tok = "Voltar" -> "voltar"
    [] tok = "Atendente" -> "atendente"
    [] tok = "Quero Atendente" -> "quero atendente"
    [] tok = "Ana" -> "ana"
    [] tok = "Bob" -> "bob"
    [] tok = "Preco" -> "preco"
    [] tok = "Placas" -> "placas"
    [] tok = "A" -> "a"
    [] tok = "#LEADS" -> "#leads"
    [] tok = "MESSAGES.UPSERT" -> "messages.upsert"
    [] tok = "Humano" -> "humano"
    [] tok = "Reativar" -> "reativar"
    [] tok = "Digite" -> "digite"
    [] tok = "Vendas" -> "vendas"
    [] tok = "Suporte" -> "suporte"
    [] tok = "Ok." -> "ok."
    [] tok = "#ON" -> "#on"
    [] tok = "Business" -> "business"
    [] OTHER -> tok

Lower(s) == [i \in 1..Len(s) |-> LowerTok(s[i])]

\* str.upper() on a token
UpperTok(tok) ==
  CASE tok = "a" -> "A"
    [] tok = "b" -> "B"
    [] tok = "c" -> "C"
    [] tok = "delivery_ack" -> "DELIVERY_ACK"
    [] tok = "read" -> "READ"
    [] OTHER -> tok

\* str.strip() on a whole string
StripStr(s) ==
  CASE s = " n1 " -> "n1"
    [] s = " inst1 " -> "inst1"
    [] s = " " -> ""
    [] OTHER -> s

\* characters of a token, and of a text with one separator between tokens
TokLen(tok) == IF tok = "LONGTEXT" THEN 600 ELSE 12
CharLen(s) == SumSeq([i \in 1..Len(s) |-> TokLen(s[i])]) + Max(0, Len(s) - 1)

RECURSIVE Truncate(_, _)
\* s[:n]; a cut that falls inside a token drops that token
Truncate(s, n) ==
  IF CharLen(s) <= n THEN s ELSE Truncate(SubSeq(s, 1, Len(s) - 1), n)

\* substring test  kw in t  for a keyword that holds no delimiter
Contains(t, kw) ==
  \E i \in 1..Len(t) :
     \/ t[i] = kw
     \/ kw = "atendente" /\ t[i] = "quero atendente"

CountDigits(s) == SumSeq([i \in 1..Len(s) |-> DigitsOf(s[i])])

----------------------------------------------------------------------------
(* Tenants: table "agents" (instance is unique) *)

AgentIds == {"A1", "A2"}

\* the ids load_rules_for_agent is called with: the agents and an id without a row
CacheKeys == AgentIds \cup {"A9"}

Agents ==
  << [id |-> "A1", client_id |-> "c1", instance |-> "inst1"],
     [id |-> "A2", client_id |-> "c1", instance |-> "inst2"] >>

\* lead_logger.get_agent_by_instance (without the database failure)
get_agent_by_instance(instance) ==
  IF instance = "" THEN None
  ELSE LET hits == SelectSeq(Agents, LAMBDA a : a.instance = instance)
       IN IF hits = <<>> THEN None ELSE Some(hits[1])

----------------------------------------------------------------------------
(* store.py : MemoryStore *)

\* A conversation state dict.  An absent key reads like its falsy value in
\* every state.get(..) of the code: step "", lead None, lead_saved False,
\* bot_paused_until 0, service_choice "".
EmptyState ==
  [step |-> "", lead |-> None, lead_saved |-> FALSE,
   bot_paused_until |-> 0, service_choice |-> ""]

\* MemoryStore.seen: result and the id set afterwards
seen_noadd(ids, message_id) ==
  IF message_id = "" THEN [result |-> FALSE, ids |-> ids]
  ELSE IF message_id \in ids THEN [result |-> TRUE, ids |-> ids]
  ELSE [result |-> FALSE, ids |-> ids]

seen(ids, message_id) ==
  IF message_id = "" THEN [result |-> FALSE, ids |-> ids]
  ELSE IF message_id \in ids THEN [result |-> TRUE, ids |-> ids]
  ELSE [result |-> FALSE, ids |-> ids \cup {message_id}]

\* MemoryStore.get_state: user_state.setdefault(key, {})
get_state_map(us, key) ==
  IF key \in DOMAIN us THEN us
  ELSE [k \in DOMAIN us \cup {key} |-> IF k = key THEN EmptyState ELSE us[k]]

get_state(us, key) == get_state_map(us, key)[key]

\* MemoryStore.set_state
set_state(us, key, state) ==
  [k \in DOMAIN us \cup {key} |-> IF k = key THEN state ELSE us[k]]

----------------------------------------------------------------------------
(* ratelimit.py : RateLimiter, as constructed in main.py *)

max_events == 10
window_seconds == 12

RECURSIVE DropOld_strict(_, _)
DropOld_strict(q, tnow) ==
  IF q /= <<>> /\ (tnow - Head(q)) >= window_seconds THEN DropOld_strict(Tail(q), tnow) ELSE q

RECURSIVE DropOld(_, _)
\* while q and (now - q[0]) > self.window: q.popleft()
DropOld(q, tnow) ==
  IF q /= <<>> /\ (tnow - Head(q)) > window_seconds THEN DropOld(Tail(q), tnow) ELSE q

\* RateLimiter.allow: result and the events map afterwards
allow(ev, key, tnow) ==
  LET q0 == IF key \in DOMAIN ev THEN ev[key] ELSE <<>>
      q  == DropOld(q0, tnow)
      put(qq) == [k \in DOMAIN ev \cup {key} |-> IF k = key THEN qq ELSE ev[k]]
  IN IF Len(q) >= max_events
     THEN [result |-> FALSE, events |-> put(q)]
     ELSE [result |-> TRUE, events |-> put(Append(q, tnow))]

----------------------------------------------------------------------------
(* rules.py : the rule engine wired to the webhook *)

BUSINESS_DAYS == {0, 1, 2, 3, 4}
BUSINESS_START == 9 * 3600
BUSINESS_END == 18 * 3600
PAUSE_MINUTES_ON_HANDOFF == 120

Weekday(tnow) == (tnow \div 86400) % 7
TimeOfDay(tnow) == tnow % 86400

\* rules.normalize: strip and lower
normalize(text) == Lower(text)

\* rules.in_business_hours
rules_in_business_hours(tnow) ==
  /\ Weekday(tnow) \in BUSINESS_DAYS
  /\ BUSINESS_START <= TimeOfDay(tnow)
  /\ TimeOfDay(tnow) <= BUSINESS_END

GREETINGS == {<<"menu">>, <<"oi">>, <<"ola">>, <<"inicio">>, <<"start">>}
REACTIVATE == {<<"voltar">>, <<"reativar">>, <<"#on">>}

MSG_REACTIVATED == <<"Bot reativado. Agora digite *menu* para continuar.">>
MSG_COLLECT_RETRY == <<"Para eu encaminhar certinho, envie assim: ...">>
MSG_BAD_PHONE == <<"O telefone parece invalido. Envie novamente">>
MSG_OFF_GREETING == <<"No momento estamos *fora do horario* ...">>
MSG_COLLECT_PROMPT == <<"Perfeito! Para te encaminhar para um atendente, envie: ...">>
MSG_OFF_HOURS == <<"Estamos fora do horario agora. Se quiser atendimento, digite *atendente*.">>
MSG_MENU == <<"Sou o atendimento automatico. Digite uma opcao: 1) 2) 3)">>
MSG_SERVICES == <<"Qual servico voce precisa? A) B) C)">>
MSG_HOURS == <<"Atendemos de seg a sex, 9h as 18h.">>
MSG_SERVICES_RETRY == <<"Responda com A, B ou C">>
MSG_NOT_UNDERSTOOD == <<"Nao entendi. Digite *menu* para ver as opcoes.">>
MSG_THANKS(nome) == <<"Obrigado, ">> \o nome \o <<"! Recebemos suas informacoes ...">>
MSG_CHOSEN(t) == <<"Perfeito! Voce escolheu ">> \o t \o <<". Um atendente continuara com voce.">>

COLLECT_DELIMS == {"\n", "|", ";", ",", "-"}

\* the three lines of a contact submission (fewer when it cannot be split)
contact_lines(raw) ==
  LET lines == NonEmpty(Split(raw, {"\n"}))
      parts == NonEmpty(Split(raw, COLLECT_DELIMS))
  IN IF Len(lines) < 3 /\ Len(parts) >= 3 THEN SubSeq(parts, 1, 3) ELSE lines

\* the reactivation branch, keeping step (a slip that forgets one pop)
reactivated_keep_step(state) ==
  [state EXCEPT !.bot_paused_until = 0, !.lead = None, !.lead_saved = FALSE]

\* state.pop of bot_paused_until, step, lead, lead_saved
reactivated(state) ==
  [state EXCEPT !.bot_paused_until = 0, !.step = "", !.lead = None, !.lead_saved = FALSE]

\* the branch of reply_for for step == "collect_contact"
collect_contact(text, state, tnow) ==
  LET lines == contact_lines(text)
  IN IF Len(lines) < 3 THEN [state |-> state, reply |-> Some(MSG_COLLECT_RETRY)]
     ELSE IF CountDigits(lines[2]) < 8 THEN [state |-> state, reply |-> Some(MSG_BAD_PHONE)]
     ELSE [state |-> [state EXCEPT
                        !.lead = Some([nome |-> lines[1], telefone |-> lines[2],
                                       assunto |-> lines[3], timestamp |-> tnow]),
                        !.bot_paused_until = tnow + PAUSE_MINUTES_ON_HANDOFF * 60,
                        !.step = "lead_captured"],
           reply |-> Some(MSG_THANKS(lines[1]))]

\* a pause that is never in force
is_paused_never(state, tnow) == FALSE

\* paused_until = int(state.get("bot_paused_until") or 0)
\* paused_until and int(now.timestamp()) < paused_until
is_paused(state, tnow) == state.bot_paused_until /= 0 /\ tnow < state.bot_paused_until

\* rules.reply_for: the state afterwards and the reply (None = stay silent)
reply_for(number, text, state, tnow) ==
  LET t == normalize(text)
      wants_agent == Contains(t, "atendente") \/ t = <<"3">>
      to_collect == [state |-> [state EXCEPT !.step = "collect_contact"],
                     reply |-> Some(MSG_COLLECT_PROMPT)]
  IN
  IF t \in REACTIVATE THEN
    [state |-> reactivated(state), reply |-> Some(MSG_REACTIVATED)]
  ELSE IF is_paused(state, tnow) THEN
    [state |-> state, reply |-> None]
  ELSE IF state.step = "collect_contact" THEN
    collect_contact(text, state, tnow)
  ELSE IF ~ rules_in_business_hours(tnow) THEN
    IF t \in GREETINGS THEN [state |-> state, reply |-> Some(MSG_OFF_GREETING)]
    ELSE IF wants_agent THEN to_collect
    ELSE [state |-> state, reply |-> Some(MSG_OFF_HOURS)]
  ELSE IF t \in GREETINGS THEN
    [state |-> [state EXCEPT !.step = "menu"], reply |-> Some(MSG_MENU)]
  ELSE IF t = <<"1">> THEN
    [state |-> [state EXCEPT !.step = "services"], reply |-> Some(MSG_SERVICES)]
  ELSE IF t = <<"2">> THEN
    [state |-> state, reply |-> Some(MSG_HOURS)]
  ELSE IF wants_agent THEN to_collect
  ELSE IF state.step = "services" THEN
    IF t \in {<<"a">>, <<"b">>, <<"c">>}
    THEN [state |-> [state EXCEPT !.service_choice = t[1], !.step = "done"],
          reply |-> Some(MSG_CHOSEN(<<UpperTok(t[1])>>))]
    ELSE [state |-> state, reply |-> Some(MSG_SERVICES_RETRY)]
  ELSE [state |-> state, reply |-> Some(MSG_NOT_UNDERSTOOD)]

INTENT_ORDER == <<"orcamento", "preco", "transferencia", "documento", "atendente">>

\* the INTENT_KEYWORDS entries a lowercased token holds as a substring
IntentsOfTok(tok) ==
  CASE tok \in {"orcamento", "cotacao"} -> {"orcamento"}
    [] tok \in {"preco", "valor"} -> {"preco"}
    [] tok \in {"transferencia", "transferir"} -> {"transferencia"}
    [] tok \in {"documento", "crlv"} -> {"documento"}
    [] tok \in {"atendente", "quero atendente", "suporte"} -> {"atendente"}
    [] OTHER -> {}

\* rules.detect_intents
detect_intents(text) ==
  LET t == Lower(text)
      found == UNION {IntentsOfTok(t[i]) : i \in 1..Len(t)}
  IN SelectSeq(INTENT_ORDER, LAMBDA k : k \in found)

----------------------------------------------------------------------------
(* lead_logger.py : the lead store.  A row keeps the columns the operations *)
(* read or that identify it; agent_id "" is NULL, an empty text is NULL.    *)
(* updated_at and first_seen_at are written but never read and are left    *)
(* out.  Each operation runs in one session and commits once, so it gives   *)
(* the table afterwards, or raises and leaves the table as it was.          *)

NewLead(cid, aid, inst, num, origem, status, tnow) ==
  [client_id |-> cid, agent_id |-> aid, instance |-> inst, from_number |-> num,
   nome |-> <<>>, telefone |-> <<>>, assunto |-> <<>>,
   status |-> status, origem |-> origem, intent_detected |-> <<>>,
   lead_saved |-> FALSE, created_at |-> tnow]

\* the rows the query of _find_lead matches
lead_matches(rows, cid, aid, num) ==
  {i \in 1..Len(rows) :
     /\ rows[i].client_id = cid
     /\ rows[i].from_number = num
     /\ (aid /= "" => rows[i].agent_id = aid)}

\* a lookup that never finds the current row
_find_lead_blind(rows, cid, aid, num) == {}

\* lead_logger._find_lead: the rows .first() may return after
\* ORDER BY created_at DESC (rows of equal created_at come in any order);
\* the empty set when there is no row
_find_lead(rows, cid, aid, num) ==
  LET m == lead_matches(rows, cid, aid, num)
  IN {i \in m : \A j \in m : rows[j].created_at <= rows[i].created_at}

\* cid = (client_id or DEFAULT_CLIENT_ID or "").strip()
effective_client(client_id, dflt) ==
  StripStr(IF client_id /= "" THEN client_id ELSE dflt)

\* lead_logger.ensure_first_contact: the tables it may leave
ensure_first_contact(rows, dflt, client_id, agent_id, instance, from_number, tnow) ==
  LET cid == effective_client(client_id, dflt)
      inst == StripStr(instance)
      aid == StripStr(agent_id)
      num == StripStr(from_number)
      found == _find_lead(rows, cid, aid, num)
  IN IF cid = "" THEN [raised |-> TRUE, tables |-> {rows}]
     ELSE IF num = "" THEN [raised |-> FALSE, tables |-> {rows}]
     ELSE IF found = {}
     THEN [raised |-> FALSE,
           tables |-> {Append(rows, NewLead(cid, aid, inst, num, "whatsapp", "primeiro_contato", tnow))}]
     ELSE [raised |-> FALSE, tables |-> {rows}]

\* no status counts as advanced
ADVANCED_STATUS_none == {}

\* the statuses that mark_intent keeps
ADVANCED_STATUS == {"aguardando_atendente", "handoff", "lead_captured"}

\* lead_logger.mark_intent
mark_intent(rows, dflt, client_id, agent_id, instance, from_number, intents, tnow) ==
  LET cid == effective_client(client_id, dflt)
      inst == StripStr(instance)
      aid == StripStr(agent_id)
      num == StripStr(from_number)
      intent_str == Truncate(SelectSeq(Lower(intents), LAMBDA i : i /= ""), 500)
      found == _find_lead(rows, cid, aid, num)
      upd(i) == [rows EXCEPT ![i] =
                   [@ EXCEPT !.intent_detected = intent_str,
                             !.status = IF @ \in ADVANCED_STATUS THEN @ ELSE "lead_quente",
                             !.origem = "intencao"]]
  IN IF cid = "" THEN [raised |-> TRUE, tables |-> {rows}]
     ELSE IF num = "" THEN [raised |-> FALSE, tables |-> {rows}]
     ELSE IF found = {}
     THEN [raised |-> FALSE,
           tables |-> {Append(rows, [NewLead(cid, aid, inst, num, "intencao", "lead_quente", tnow)
                                       EXCEPT !.intent_detected = intent_str])}]
     ELSE [raised |-> FALSE, tables |-> {upd(i) : i \in found}]

\* lead_logger.save_handoff_lead (the CSV backup never raises and is left out)
save_handoff_lead(rows, dflt, client_id, agent_id, instance, from_number, nome, telefone, assunto, tnow) ==
  LET cid == effective_client(client_id, dflt)
      inst == StripStr(instance)
      aid == StripStr(agent_id)
      num == StripStr(from_number)
      n == Truncate(nome, 200)
      t == Truncate(telefone, 80)
      a == Truncate(assunto, 500)
      found == _find_lead(rows, cid, aid, num)
      upd(i) == [rows EXCEPT ![i] =
                   [@ EXCEPT !.nome = IF n /= <<>> THEN n ELSE @,
                             !.telefone = IF t /= <<>> THEN t ELSE @,
                             !.assunto = IF a /= <<>> THEN a ELSE @,
                             !.status = "aguardando_atendente",
                             !.origem = "handoff_form",
                             !.lead_saved = TRUE]]
  IN IF cid = "" THEN [raised |-> TRUE, tables |-> {rows}]
     ELSE IF num = "" THEN [raised |-> FALSE, tables |-> {rows}]
     ELSE IF found = {}
     THEN [raised |-> FALSE,
           tables |-> {Append(rows, [NewLead(cid, aid, inst, num, "handoff_form", "aguardando_atendente", tnow)
                                       EXCEPT !.nome = n, !.telefone = t, !.assunto = a,
                                              !.lead_saved = TRUE])}]
     ELSE [raised |-> FALSE, tables |-> {upd(i) : i \in found}]

\* lead_logger.get_last_leads(limit=5, client_id, agent_id): newest first
get_last_leads(rows, dflt, client_id, agent_id) ==
  LET cid == effective_client(client_id, dflt)
      aid == StripStr(agent_id)
      hit == SelectSeq(rows, LAMBDA r : (cid /= "" => r.client_id = cid)
                                         /\ (aid /= "" => r.agent_id = aid))
  IN Min(Len(hit), 5)

----------------------------------------------------------------------------
(* rules_engine.py : the configurable rule engine.  A rules document is a  *)
(* record; an absent key is "" for a string, None for a template, <<>> for *)
(* a list.                                                                  *)

NoMessages ==
  [welcome |-> None, fallback |-> None, off_hours |-> None,
   handoff_prompt |-> None, handoff_ok |-> None, handoff_retry |-> None]

\* the rules document {}
RULES_EMPTY ==
  [hours |-> [mode |-> "", open |-> "", close |-> ""],
   handoff_keyword |-> "",
   messages |-> NoMessages,
   ui_menu_text |-> None,
   menu_title |-> "",
   options |-> <<>>,
   map |-> <<>>]

\* a tenant with business hours, its own keyword, templates and menu
RULES_SHOP ==
  [hours |-> [mode |-> "Business", open |-> "09:00", close |-> "18:00"],
   handoff_keyword |-> "Humano",
   messages |-> [NoMessages EXCEPT
                   !.off_hours = Some(<<"Loja fechada.">>),
                   !.handoff_prompt = Some(<<"Envie nome - telefone - assunto">>),
                   !.handoff_ok = Some(<<"Valeu, ", "{nome}", "! Assunto: ", "{assunto}">>)],
   ui_menu_text |-> None,
   menu_title |-> "Loja",
   options |-> << [key |-> "1", label |-> "Vendas", reply |-> Some(<<"Fale com vendas.">>)],
                  [key |-> "2", label |-> "Atendente", reply |-> Some(<<"__HANDOFF__">>)],
                  [key |-> "3", label |-> "Menu", reply |-> Some(<<"__SHOW_MENU__">>)] >>,
   map |-> << [key |-> "menu:orcamento", reply |-> Some(<<"Orcamento em 24h.">>)] >>]

\* a tenant whose confirmation template names a placeholder that format() does not know
RULES_BAD_TEMPLATE ==
  [RULES_EMPTY EXCEPT !.messages = [NoMessages EXCEPT !.handoff_ok = Some(<<"Oi ", "{cliente}">>)]]

\* a tenant whose keyword holds dashes and whose confirmation template
\* names the customer and a placeholder that format() does not know
RULES_DASH ==
  [RULES_EMPTY EXCEPT
     !.hours = [mode |-> "business", open |-> "09:00", close |-> "18:00"],
     !.handoff_keyword = "fale-com-humano",
     !.messages = [NoMessages EXCEPT
                     !.handoff_ok = Some(<<"Oi ", "{nome}", ", ", "{cliente}">>),
                     !.handoff_retry = Some(<<"Formato: nome - telefone - assunto">>)]]

DEFAULT_HANDOFF_PROMPT == <<"Perfeito! Para encaminhar para um atendente, envie: *Nome* - *Telefone* - *Assunto*">>
DEFAULT_OFF_HOURS == <<"Estamos fora do horario agora. Se quiser atendimento, digite *atendente*.">>
DEFAULT_HANDOFF_OK == <<"Obrigado, ", "{nome}", "! Recebemos suas informacoes e um atendente vai falar com voce em breve.">>
DEFAULT_HANDOFF_RETRY == <<"Nao consegui entender. Envie no formato: *Nome* - *Telefone* - *Assunto*">>
DEFAULT_WELCOME == <<"Ola! Digite *menu* para ver opcoes.">>
DEFAULT_FALLBACK == <<"Nao entendi. Digite *menu* para ver opcoes.">>
MENU_FOOTER == <<"\n", "Digite o numero da opcao ou *menu* para ver novamente.">>

\* rules_engine.get_text for the paths "messages.<name>"
get_text(msg, default) == IF IsSome(msg) THEN msg[1] ELSE default

PLACEHOLDERS == {"{nome}", "{telefone}", "{assunto}"}
IsField(tok) == tok \in {"{nome}", "{telefone}", "{assunto}", "{cliente}", "{"}

RECURSIVE Substitute(_, _, _, _)
Substitute(tpl, nome, telefone, assunto) ==
  IF tpl = <<>> THEN <<>>
  ELSE (CASE Head(tpl) = "{nome}" -> nome
          [] Head(tpl) = "{telefone}" -> telefone
          [] Head(tpl) = "{assunto}" -> assunto
          [] OTHER -> <<Head(tpl)>>)
       \o Substitute(Tail(tpl), nome, telefone, assunto)

\* a formatter that returns every template as it is
_safe_format_raw(tpl, nome, telefone, assunto) == tpl

\* rules_engine._safe_format: template.format(nome=, telefone=, assunto=),
\* the raw template when format raises
_safe_format(tpl, nome, telefone, assunto) ==
  IF \E i \in 1..Len(tpl) : IsField(tpl[i]) /\ tpl[i] \notin PLACEHOLDERS
  THEN tpl
  ELSE Substitute(tpl, nome, telefone, assunto)

\* int(h) * 60 + int(m) of "HH:MM"
MinutesOf(hm) ==
  CASE hm = "08:00" -> 480
    [] hm = "09:00" -> 540
    [] hm = "18:00" -> 1080
    [] OTHER -> 0

\* a gate that is always open
in_business_hours_always(rules, tnow) == TRUE

\* rules_engine.in_business_hours; time.localtime() reads the same clock
in_business_hours(rules, tnow) ==
  LET open_h == IF rules.hours.open /= "" THEN rules.hours.open ELSE "08:00"
      close_h == IF rules.hours.close /= "" THEN rules.hours.close ELSE "18:00"
      now_min == TimeOfDay(tnow) \div 60
  IN IF LowerTok(rules.hours.mode) /= "business" THEN TRUE
     ELSE MinutesOf(open_h) <= now_min /\ now_min <= MinutesOf(close_h)

\* rules_engine.menu_reply
menu_reply(rules) ==
  LET title == IF rules.menu_title /= "" THEN rules.menu_title ELSE "Menu"
      shown == SelectSeq(rules.options, LAMBDA o : StripStr(o.key) /= "" /\ StripStr(o.label) /= "")
      lines == <<<<"*" \o title \o "*">>>>
               \o [i \in 1..Len(shown) |-> <<StripStr(shown[i].key), "-", StripStr(shown[i].label)>>]
               \o <<MENU_FOOTER>>
  IN IF IsSome(rules.ui_menu_text) /\ rules.ui_menu_text[1] /= <<>>
     THEN rules.ui_menu_text[1]
     ELSE Flatten(lines, <<"\n">>)

\* rules_engine.match_menu_option: the option matched, None when there is none
match_menu_option(rules, text) ==
  LET byKey == SelectSeq(rules.options,
                 LAMBDA o : StripStr(o.key) /= "" /\ Lower(text) = <<LowerTok(StripStr(o.key))>>)
      byMap == SelectSeq(rules.map, LAMBDA e : text = <<e.key>>)
  IN IF byKey /= <<>> THEN Some([key |-> byKey[1].key, reply |-> byKey[1].reply])
     ELSE IF byMap /= <<>> THEN Some([key |-> byMap[1].key, reply |-> byMap[1].reply])
     ELSE None

\* a submission accepted from two parts on
enough_parts_two(parts) == Len(parts) >= 2

\* len(parts) >= 3
enough_parts(parts) == Len(parts) >= 3

\* the branch of apply_rules for step == "handoff_collect"
handoff_collect(t, state, rules) ==
  LET parts == Split(t, {"-"})
      nome == parts[1]
      telefone == parts[2]
      assunto == Flatten(SubSeq(parts, 3, Len(parts)), <<"-">>)
      tpl == get_text(rules.messages.handoff_ok, DEFAULT_HANDOFF_OK)
  IN IF enough_parts(parts)
     THEN [state |-> [state EXCEPT
                        !.lead = Some([nome |-> nome, telefone |-> telefone, assunto |-> assunto]),
                        !.step = "lead_captured"],
           reply |-> Some(_safe_format(tpl, IF nome /= <<>> THEN nome ELSE <<":)">>, telefone, assunto))]
     ELSE [state |-> state,
           reply |-> Some(get_text(rules.messages.handoff_retry, DEFAULT_HANDOFF_RETRY))]

\* a conversation that never counts as new
is_fresh_never(step) == FALSE

\* not state.get("step")
is_fresh(step) == step = ""

\* a gate that holds back every step
gate_exempt_none(step) == FALSE

\* (state.get("step") or "") in ("handoff_collect", "lead_captured"): the
\* steps that the business-hours gate lets through
gate_exempt(step) == step \in {"handoff_collect", "lead_captured"}

\* the keyword test on the text as typed, without lower()
is_handoff_keyword_cased(t, rules) ==
  LET kw == IF rules.handoff_keyword /= "" THEN rules.handoff_keyword ELSE "atendente"
  IN JoinStr(t) = LowerTok(StripStr(kw))

\* handoff_kw = (handoff.get("keyword") or "atendente").strip().lower()
\* t.lower() == handoff_kw
is_handoff_keyword(t, rules) ==
  LET kw == IF rules.handoff_keyword /= "" THEN rules.handoff_keyword ELSE "atendente"
      handoff_kw == LowerTok(StripStr(kw))
  IN JoinStr(Lower(t)) = handoff_kw

\* rules_engine.apply_rules: the state afterwards and the reply
apply_rules(number, text, state, rules, tnow) ==
  LET t == text
      opt == match_menu_option(rules, t)
      to_handoff == [state |-> [state EXCEPT !.step = "handoff_collect"],
                     reply |-> Some(get_text(rules.messages.handoff_prompt, DEFAULT_HANDOFF_PROMPT))]
      to_menu == [state |-> [state EXCEPT !.step = "menu"], reply |-> Some(menu_reply(rules))]
  IN
  IF is_handoff_keyword(t, rules) THEN to_handoff
  ELSE IF ~ in_business_hours(rules, tnow) /\ ~ gate_exempt(state.step) THEN
    [state |-> state, reply |-> Some(get_text(rules.messages.off_hours, DEFAULT_OFF_HOURS))]
  ELSE IF Lower(t) \in {<<"menu">>, <<"voltar">>} THEN to_menu
  ELSE IF state.step = "handoff_collect" THEN handoff_collect(t, state, rules)
  ELSE IF IsSome(opt) THEN
    LET reply == IF IsSome(opt[1].reply) /\ opt[1].reply[1] /= <<>> THEN opt[1].reply[1] ELSE <<"Ok.">>
    IN IF reply = <<"__SHOW_MENU__">> THEN to_menu
       ELSE IF reply = <<"__HANDOFF__">> THEN to_handoff
       ELSE [state |-> [state EXCEPT !.step = "menu:" \o opt[1].key], reply |-> Some(reply)]
  ELSE IF is_fresh(state.step) THEN
    [state |-> [state EXCEPT !.step = "welcome"],
     reply |-> Some(get_text(rules.messages.welcome, DEFAULT_WELCOME))]
  ELSE [state |-> state, reply |-> Some(get_text(rules.messages.fallback, DEFAULT_FALLBACK))]

\* the cache of rules_engine: _CACHE_TTL_SECONDS
_CACHE_TTL_SECONDS == 0

\* an invalidation that leaves the entry in place
invalidate_noop(c, agent_id) == c

\* rules_engine.invalidate_agent_rules: _CACHE.pop(agent_id, None)
invalidate_agent_rules(c, agent_id) ==
  IF agent_id \in DOMAIN c THEN [c EXCEPT ![agent_id] = None] ELSE c

\* rules_engine.load_rules_for_agent: the rules returned (None when the
\* query raises) and the cache afterwards; an entry is Some([ts, rules]),
\* agent_id "" is the falsy id and the database is read on a miss only
load_rules_for_agent(c, db, agent_id, tnow, db_fails) ==
  IF agent_id = "" THEN [rules |-> Some(RULES_EMPTY), cache |-> c]
  ELSE IF IsSome(c[agent_id])
          /\ (_CACHE_TTL_SECONDS <= 0 \/ tnow - c[agent_id][1].ts <= _CACHE_TTL_SECONDS)
  THEN [rules |-> Some(c[agent_id][1].rules), cache |-> c]
  ELSE IF db_fails THEN [rules |-> None, cache |-> c]
  ELSE LET rules == IF agent_id \in DOMAIN db THEN db[agent_id] ELSE RULES_EMPTY
       IN [rules |-> Some(rules),
           cache |-> [c EXCEPT ![agent_id] = Some([ts |-> tnow, rules |-> rules])]]

\* template_rules of admin_web.agent_rules_reset
RULES_TEMPLATE ==
  [hours |-> [mode |-> "business", open |-> "08:00", close |-> "18:00"],
   handoff_keyword |-> "atendente",
   messages |-> [welcome |-> Some(DEFAULT_WELCOME), fallback |-> Some(DEFAULT_FALLBACK),
                 off_hours |-> Some(DEFAULT_OFF_HOURS),
                 handoff_prompt |-> Some(DEFAULT_HANDOFF_PROMPT),
                 handoff_ok |-> Some(<<"Obrigado! Recebemos suas informacoes e um atendente vai falar com voce em breve.">>),
                 handoff_retry |-> Some(DEFAULT_HANDOFF_RETRY)],
   ui_menu_text |-> None,
   menu_title |-> "Menu Principal",
   options |-> << [key |-> "1", label |-> "Vendas", reply |-> Some(<<"Certo! Me diga o que voce precisa em Vendas.">>)],
                  [key |-> "2", label |-> "Suporte", reply |-> Some(<<"Beleza! Me diga qual o problema.">>)] >>,
   map |-> <<>>]

\* json.loads(rules_text) and the isinstance(parsed, dict) test of
\* agent_rules_save: the document, None when the text is rejected
parse_rules_text(rules_text) ==
  CASE rules_text = "{}" -> Some(RULES_EMPTY)
    [] rules_text = "{shop}" -> Some(RULES_SHOP)
    [] rules_text = "{bad_template}" -> Some(RULES_BAD_TEMPLATE)
    [] OTHER -> None

\* the database write of agent_rules_save and agent_rules_reset followed by
\* the invalidation: the table and the cache afterwards
write_rules(db, c, agent_id, parsed) ==
  [db |-> [db EXCEPT ![agent_id] = parsed], cache |-> invalidate_agent_rules(c, agent_id)]

----------------------------------------------------------------------------
(* main.py : payload normalisation *)

\* remote.replace("@s.whatsapp.net", "").replace("@c.us", "").replace("whatsapp:", "").strip()
StripJid(remote) ==
  CASE remote = "n1@s.whatsapp.net" -> "n1"
    [] remote = "n2@s.whatsapp.net" -> "n2"
    [] remote = "n1@c.us" -> "n1"
    [] remote = "whatsapp:n1" -> "n1"
    [] OTHER -> StripStr(remote)

\* remote.endswith("@g.us")
IsGroupJid(remote) == remote \in {"n1@g.us", "n2@g.us"}

\* "update" in event
HasUpdate(event) == event \in {"messages.update", "update"}

ACK_STATUS == {"ACK", "READ", "DELIVERED", "DELIVERED_TO_DEVICE", "SERVER_ACK", "DELIVERY_ACK"}

\* main._convert_simulator_to_evolution; a simulator payload carries the
\* sender in from_number, held here in the field remote
_convert_simulator_to_evolution(d, tnow) ==
  [d EXCEPT
     !.instance = StripStr(d.instance),
     !.message_id = IF StripStr(d.message_id) /= "" THEN StripStr(d.message_id)
                    ELSE "sim-" \o ToString(tnow),
     !.remote = IF StripStr(d.remote) /= "" THEN StripStr(d.remote) \o "@s.whatsapp.net" ELSE "",
     !.from_me = FALSE,
     !.status = UpperTok(IF StripStr(d.status) /= "" THEN StripStr(d.status) ELSE "MESSAGE"),
     !.event = LowerTok(IF StripStr(d.event) /= "" THEN StripStr(d.event) ELSE "messages.upsert")]

\* main.extract_payload on a payload whose fields have the expected types
extract_payload(p) ==
  [instance |-> StripStr(p.instance),
   message_id |-> StripStr(p.message_id),
   number |-> StripJid(p.remote),
   text |-> p.text,
   from_me |-> p.from_me,
   is_group |-> IsGroupJid(StripStr(p.remote)),
   event |-> LowerTok(p.event),
   status |-> UpperTok(p.status)]

----------------------------------------------------------------------------
(* What a step records about the call it handled *)

Resp(ignored, sent, paused) ==
  [status |-> "ok", ignored |-> ignored, sent |-> sent, paused |-> paused]

\* the handler was left by an exception: no response body
RespException == [status |-> "exception", ignored |-> "", sent |-> "", paused |-> FALSE]

Call(fn, arg) == [fn |-> fn, arg |-> arg]

NoTurn ==
  [op |-> "none", number |-> "", agent_id |-> "", message_id |-> "", text |-> <<>>,
   passed |-> FALSE, engine |-> FALSE, capture_error |-> FALSE, save_error |-> FALSE,
   redelivered |-> FALSE, redelivered_past_noise |-> FALSE,
   captured |-> None, state |-> EmptyState, reply |-> None, rules |-> None, calls |-> <<>>,
   label |-> "", send_error |-> FALSE, conv_paused |-> FALSE,
   resp |-> Resp("", "", FALSE)]

\* reasons of the drops that come before the dedup check
EARLY_REASONS ==
  {"bad_json", "simulator_disabled", "simulator_unauthorized", "missing_instance",
   "unknown_instance", "update", "ack/status_no_text", "from_me/group"}

PastNoise(resp) == resp.status = "ok" /\ resp.ignored \notin EARLY_REASONS

----------------------------------------------------------------------------
(* main.py : the webhook handler.  The handler suspends only while it reads *)
(* the request body, before it reads any shared state, and while it awaits  *)
(* evo.send_text, after its last write to shared state: everything between  *)
(* runs as one step of the event loop, and the outcome of the send is an    *)
(* input of the step.                                                       *)

MSG_ADMIN_ERROR == <<"Erro ao consultar leads no banco.">>
MSG_ADMIN_NONE == <<"Nenhum lead encontrado.">>
MSG_ADMIN_LIST == <<"Ultimos Leads">>

\* the "ignored" value of the response body that the handler returns next to
\* WEBHOOK_IGNORED.labels(label).inc(); "" when the body has no such key
ignored_body(label) ==
  CASE label = "from_me_or_group" -> "from_me/group"
    [] label \in {"admin_unauthorized", "paused"} -> ""
    [] OTHER -> label

\* a response that reports every send as done
send_result_optimistic(raised) == "true"

\* the "sent" value of the response body: try: await evo.send_text(..)
\* return sent True, except Exception: return sent False
send_result(raised) == IF raised THEN "false" ELSE "true"

\* the key under which the handler keeps the state of (agent, sender)
StateKey(agent_id, number) == number

\* state = store.get_state(number) or {} : an empty stored dict is falsy, and
\* the handler then works on a fresh dict that the store never sees
state_attached(stored) == stored /= EmptyState

\* step == "lead_captured" and lead and not lead_saved
should_save(st) == st.step = "lead_captured" /\ IsSome(st.lead) /\ ~ st.lead_saved

\* the statements of the try block around ensure_first_contact /
\* detect_intents / mark_intent: the tables they may leave, the calls made,
\* whether one of them raised; swallow says whether the except clause
\* catches it
capture_block(rows, dflt, ag, x, env, tnow, swallow) ==
  LET e == ensure_first_contact(rows, dflt, ag.client_id, ag.id, x.instance, x.number, tnow)
      intents == detect_intents(x.text)
      c1 == <<Call("ensure_first_contact", <<>>)>>
      c2 == Append(c1, Call("mark_intent", <<intents>>))
      marked(r1) ==
        LET m == mark_intent(r1, dflt, ag.client_id, ag.id, x.instance, x.number, intents, tnow)
        IN IF env.capture_fails = "mark" \/ m.raised
           THEN {[rows |-> r1, calls |-> c2, error |-> TRUE, raised |-> ~ swallow]}
           ELSE {[rows |-> r2, calls |-> c2, error |-> FALSE, raised |-> FALSE] : r2 \in m.tables}
  IN IF env.capture_fails = "ensure" \/ e.raised
     THEN {[rows |-> rows, calls |-> c1, error |-> TRUE, raised |-> ~ swallow]}
     ELSE IF intents = <<>>
     THEN {[rows |-> r1, calls |-> c1, error |-> FALSE, raised |-> FALSE] : r1 \in e.tables}
     ELSE UNION {marked(r1) : r1 \in e.tables}

\* the same block without its except clause
capture_unguarded(rows, dflt, ag, x, env, tnow) ==
  capture_block(rows, dflt, ag, x, env, tnow, FALSE)

\* try: ensure_first_contact ... mark_intent ... except Exception: log
capture(rows, dflt, ag, x, env, tnow) ==
  capture_block(rows, dflt, ag, x, env, tnow, TRUE)

\* the "#leads" admin command: calls made after the capture block
admin_calls(rows, dflt, ag, x, env, admin_number) ==
  IF admin_number = "" \/ x.number /= admin_number THEN <<>>
  ELSE IF env.leads_fails
  THEN <<Call("get_last_leads", <<>>), Call("send_text", <<MSG_ADMIN_ERROR>>)>>
  ELSE IF get_last_leads(rows, dflt, ag.client_id, ag.id) = 0
  THEN <<Call("get_last_leads", <<>>), Call("send_text", <<MSG_ADMIN_NONE>>)>>
  ELSE <<Call("get_last_leads", <<>>), Call("send_text", <<MSG_ADMIN_LIST>>)>>

\* the lead persistence block after a reply: tables it may leave, the state
\* dict afterwards, the calls made
persist_lead(rows, dflt, ag, x, st, env, tnow) ==
  IF ~ should_save(st) THEN {[rows |-> rows, state |-> st, calls |-> <<>>, error |-> FALSE]}
  ELSE
    LET lead == st.lead[1]
        c == <<Call("save_handoff_lead", <<lead.nome, lead.telefone, lead.assunto>>)>>
        s == save_handoff_lead(rows, dflt, ag.client_id, ag.id, x.instance, x.number,
                               lead.nome, lead.telefone, lead.assunto, tnow)
    IN IF env.save_fails \/ s.raised
       THEN {[rows |-> rows, state |-> st, calls |-> c, error |-> TRUE]}
       ELSE {[rows |-> r, state |-> [st EXCEPT !.lead_saved = TRUE], calls |-> c, error |-> FALSE]
               : r \in s.tables}

\* The outcomes of one delivery d under the collaborator behaviour env:
\* the shared state afterwards and the record of the turn.
WebhookOutcomes(d, env) ==
  LET p == IF d.shape = "simulator" THEN _convert_simulator_to_evolution(d, now) ELSE d
      x == extract_payload(p)
      agent == get_agent_by_instance(x.instance)
      ag == agent[1]
      key == StateKey(ag.id, x.number)
      ck == <<ag.id, x.number>>
      dflt == config.DEFAULT_CLIENT_ID
      base == [NoTurn EXCEPT !.op = "webhook"]
      norm == [base EXCEPT !.number = x.number, !.message_id = x.message_id, !.text = x.text,
                           !.redelivered = (x.message_id /= "" /\ x.message_id \in hist.delivered),
                           !.redelivered_past_noise =
                              (x.message_id /= "" /\ x.message_id \in hist.past_noise)]
      known == [norm EXCEPT !.agent_id = ag.id]
      out(ids, us, ev, rows, cv, t) ==
        [seen_ids |-> ids, user_state |-> us, events |-> ev, leads |-> rows, conv |-> cv, turn |-> t]
      same(t) == {out(seen_ids, user_state, events, leads, conv, t)}
      drop(t, label) == same([t EXCEPT !.label = label,
                                       !.resp = Resp(ignored_body(label), "", FALSE)])
      authorized == config.ADMIN_NUMBER /= "" /\ x.number = config.ADMIN_NUMBER
      sn == seen(seen_ids, x.message_id)
      al == allow(events, x.number, now)
      us1 == get_state_map(user_state, key)
      stored == us1[key]
      keep(st) == IF state_attached(stored) THEN [us1 EXCEPT ![key] = st] ELSE us1
      ideal == reply_for(x.number, x.text, conv[ck], now)
      cv1 == [conv EXCEPT ![ck] = ideal.state]
      newly == IF ideal.state.step = "lead_captured" /\ conv[ck].step /= "lead_captured"
               THEN ideal.state.lead ELSE None
      r == reply_for(x.number, x.text, stored, now)
      \* lines 406-515, after the capture block left c
      after_capture(c) ==
        LET t0 == [known EXCEPT !.passed = TRUE, !.capture_error = c.error, !.calls = c.calls]
        IN IF c.raised
           THEN {out(sn.ids, user_state, al.events, c.rows, conv, [t0 EXCEPT !.resp = RespException])}
           ELSE IF Lower(x.text) = <<"#leads">>
           THEN {out(sn.ids, us1, al.events, c.rows, conv,
                     [t0 EXCEPT !.calls = c.calls \o
                                  admin_calls(c.rows, dflt, ag, x, env, config.ADMIN_NUMBER),
                                !.label = IF authorized THEN "" ELSE "admin_unauthorized",
                                !.send_error = authorized /\ env.send_fails,
                                !.resp = Resp(ignored_body(IF authorized THEN "" ELSE "admin_unauthorized"),
                                              "", FALSE)])}
           ELSE IF r.reply = None
           THEN {out(sn.ids, keep(r.state), al.events, c.rows, cv1,
                     [t0 EXCEPT !.engine = TRUE, !.captured = newly, !.state = r.state,
                                !.reply = r.reply, !.conv_paused = (ideal.reply = None),
                                !.label = "paused",
                                !.calls = Append(c.calls, Call("reply_for", <<>>)),
                                !.resp = Resp(ignored_body("paused"), "", TRUE)])}
           ELSE {out(sn.ids, keep(s.state), al.events, s.rows, cv1,
                     [t0 EXCEPT !.engine = TRUE, !.captured = newly, !.state = s.state,
                                !.reply = r.reply, !.save_error = s.error,
                                !.conv_paused = (ideal.reply = None),
                                !.send_error = env.send_fails,
                                !.calls = Append(c.calls, Call("reply_for", <<>>)) \o s.calls
                                            \o <<Call("send_text", <<r.reply[1]>>)>>,
                                !.resp = Resp("", send_result(env.send_fails), FALSE)])
                   : s \in persist_lead(c.rows, dflt, ag, x, r.state, env, now)}
  IN
  IF d.shape = "bad_json" THEN drop(base, "bad_json")
  ELSE IF d.shape = "non_object" THEN same([base EXCEPT !.resp = RespException])
  ELSE IF d.shape = "simulator" /\ ~ config.ALLOW_SIMULATOR THEN drop(base, "simulator_disabled")
  ELSE IF d.shape = "simulator" /\ ~ d.sim_key_ok THEN drop(base, "simulator_unauthorized")
  ELSE IF x.instance = "" THEN drop(norm, "missing_instance")
  ELSE IF env.lookup_fails THEN same([norm EXCEPT !.resp = RespException])
  ELSE IF agent = None THEN drop(norm, "unknown_instance")
  ELSE IF HasUpdate(x.event) THEN drop(known, "update")
  ELSE IF x.status \in ACK_STATUS /\ x.text = <<>> THEN drop(known, "ack/status_no_text")
  ELSE IF x.from_me \/ x.is_group THEN drop(known, "from_me_or_group")
  ELSE IF sn.result THEN drop(known, "dedup")
  ELSE IF x.number = "" \/ x.text = <<>>
  THEN {out(sn.ids, user_state, events, leads, conv,
            [known EXCEPT !.label = "missing_number_or_text",
                          !.resp = Resp(ignored_body("missing_number_or_text"), "", FALSE)])}
  ELSE IF ~ al.result
  THEN {out(sn.ids, user_state, al.events, leads, conv,
            [known EXCEPT !.label = "rate_limited",
                          !.resp = Resp(ignored_body("rate_limited"), "", FALSE)])}
  ELSE UNION {after_capture(c) : c \in capture(leads, dflt, ag, x, env, now)}

\* history kept for the properties: ids delivered, ids of deliveries that got
\* past the noise filters, timestamps of deliveries that passed the limiter
Record(t) ==
  [delivered |-> IF t.message_id /= "" THEN hist.delivered \cup {t.message_id} ELSE hist.delivered,
   past_noise |-> IF t.message_id /= "" /\ PastNoise(t.resp)
                  THEN hist.past_noise \cup {t.message_id} ELSE hist.past_noise,
   accepted |-> IF t.passed
                THEN [hist.accepted EXCEPT ![t.number] = Append(@, now)]
                ELSE hist.accepted,
   written |-> hist.written]

\* POST /webhook from the parsed body to the response: no await in between
\* but the transport send, whose result env fixes
Handler(d, env) ==
  \E o \in WebhookOutcomes(d, env) :
    /\ seen_ids' = o.seen_ids
    /\ user_state' = o.user_state
    /\ events' = o.events
    /\ leads' = o.leads
    /\ conv' = o.conv
    /\ turn' = o.turn
    /\ hist' = Record(o.turn)
    /\ UNCHANGED <<now, rules_json, cache, config>>

\* POST /webhook, one request at a time
Webhook(d, env) == Handler(d, env) /\ UNCHANGED inflight

----------------------------------------------------------------------------
(* Time *)

\* the clock advances by dt seconds, not past limit
Tick(dt, limit) ==
  /\ now + dt <= limit
  /\ now' = now + dt
  /\ turn' = NoTurn
  /\ UNCHANGED <<seen_ids, user_state, events, leads, rules_json, cache, config, conv, hist, inflight>>

----------------------------------------------------------------------------
(* Inputs and initial states *)

Numbers == {"n1", "n2"}

MONDAY_10H == 10 * 3600
MONDAY_17H == 17 * 3600
SATURDAY_10H == 5 * 86400 + 10 * 3600

\* a text message of sender n1 to agent A1, as the gateway posts it
Plain ==
  [shape |-> "evolution", instance |-> "inst1", message_id |-> "", remote |-> "n1@s.whatsapp.net",
   text |-> <<"MENU">>, from_me |-> FALSE, event |-> "messages.upsert", status |-> "",
   sim_key_ok |-> FALSE]

\* collaborators that all work
Healthy ==
  [lookup_fails |-> FALSE, capture_fails |-> "none", save_fails |-> FALSE,
   leads_fails |-> FALSE, send_fails |-> FALSE]

\* the requests of the interleaving specification, none of them received yet
Flights == {1, 2}
NotArrived ==
  [pc |-> "none", d |-> Plain, env |-> Healthy, read |-> EmptyState, left |-> EmptyState,
   engine |-> FALSE, saved |-> FALSE]

InitStores ==
  /\ seen_ids = {}
  /\ user_state = <<>>
  /\ events = <<>>
  /\ leads = <<>>
  /\ rules_json = [a \in AgentIds |-> RULES_EMPTY]
  /\ cache = [a \in CacheKeys |-> None]
  /\ turn = NoTurn
  /\ conv = [k \in AgentIds \X Numbers |-> EmptyState]
  /\ hist = [delivered |-> {}, past_noise |-> {}, accepted |-> [n \in Numbers |-> <<>>],
             written |-> [a \in CacheKeys |-> None]]
  /\ inflight = [i \in Flights |-> NotArrived]

DefaultConfig == [ADMIN_NUMBER |-> "", ALLOW_SIMULATOR |-> FALSE, DEFAULT_CLIENT_ID |-> ""]

\* at most MaxTurns deliveries of a sender have passed the filters
WithinTurns == \A n \in Numbers : Len(hist'.accepted[n]) <= MaxTurns

----------------------------------------------------------------------------
(* Specification of the dispatch filters: every payload shape, noise filter *)
(* and collaborator failure, on one sender                                  *)

DispatchTexts == {<<>>, <<"MENU">>, <<"#LEADS">>, <<"Quero Atendente">>}
DispatchIds == {"", "m1"}

\* deliveries that no filter before the dedup check drops
CleanDeliveries ==
  {[Plain EXCEPT !.message_id = m, !.text = t] : m \in DispatchIds, t \in DispatchTexts}

\* deliveries with one defect each
NoisyDeliveries ==
  UNION {
    {[Plain EXCEPT !.message_id = m, !.event = "messages.update"],
     [Plain EXCEPT !.message_id = m, !.status = "delivery_ack"],
     [Plain EXCEPT !.message_id = m, !.status = "delivery_ack", !.text = <<>>],
     [Plain EXCEPT !.message_id = m, !.from_me = TRUE],
     [Plain EXCEPT !.message_id = m, !.remote = "n1@g.us"],
     [Plain EXCEPT !.message_id = m, !.remote = ""],
     [Plain EXCEPT !.message_id = m, !.instance = ""],
     [Plain EXCEPT !.message_id = m, !.instance = "instX"],
     [Plain EXCEPT !.message_id = m, !.instance = " inst1 "],
     [Plain EXCEPT !.message_id = m, !.shape = "simulator", !.remote = "n1", !.sim_key_ok = TRUE],
     [Plain EXCEPT !.message_id = m, !.shape = "simulator", !.remote = "n1"]}
    : m \in DispatchIds }
  \cup {[Plain EXCEPT !.shape = "bad_json"], [Plain EXCEPT !.shape = "non_object"]}

DispatchEnvs ==
  {Healthy,
   [Healthy EXCEPT !.lookup_fails = TRUE],
   [Healthy EXCEPT !.capture_fails = "ensure"],
   [Healthy EXCEPT !.capture_fails = "mark"],
   [Healthy EXCEPT !.leads_fails = TRUE],
   [Healthy EXCEPT !.send_fails = TRUE]}

DispatchInputs ==
  (CleanDeliveries \X DispatchEnvs)
  \cup (NoisyDeliveries \X {Healthy, [Healthy EXCEPT !.lookup_fails = TRUE]})

DevConfig == [ADMIN_NUMBER |-> "n1", ALLOW_SIMULATOR |-> TRUE, DEFAULT_CLIENT_ID |-> ""]

InitDispatch ==
  /\ InitStores
  /\ now = MONDAY_10H
  /\ config \in {DefaultConfig, DevConfig}

Deliver ==
  \E i \in DispatchInputs : Webhook(i[1], i[2]) /\ WithinTurns

NextDispatch == Deliver

SpecDispatch == InitDispatch /\ [][NextDispatch]_vars

----------------------------------------------------------------------------
(* Properties of the dispatch filters *)

HasCall(t, fn) == \E i \in 1..Len(t.calls) : t.calls[i].fn = fn

\* C1: every webhook delivery, whatever its payload shape and whichever
\* collaborator fails, completes with a response whose body has ok = true;
\* no failure leaves the handler as an exception.
C1_AlwaysOk == turn.op = "webhook" => turn.resp.status = "ok"

\* C2 as stated: a delivery that is answered and whose non-empty message id
\* was carried by an earlier delivery is ignored with reason "dedup" and
\* calls no collaborator; a delivery with an empty message id is never
\* deduplicated.
C2_AnyRedelivery ==
  (turn.op = "webhook" /\ turn.resp.status = "ok") =>
    /\ turn.redelivered => (turn.resp.ignored = "dedup" /\ turn.calls = <<>>)
    /\ turn.message_id = "" => turn.resp.ignored /= "dedup"

\* C2 amended: when an earlier delivery with the same non-empty extracted
\* message id got past the filters that precede the dedup check, and this
\* delivery gets past them too, it is ignored with reason "dedup" and calls
\* neither the rule engine nor the lead store nor the transport; a delivery
\* whose extracted message id is empty is never deduplicated.
C2_Dedup ==
  turn.op = "webhook" =>
    /\ (turn.redelivered_past_noise /\ PastNoise(turn.resp))
         => (turn.resp.ignored = "dedup" /\ turn.calls = <<>>)
    /\ turn.message_id = "" => turn.resp.ignored /= "dedup"

C2_Witness ==
  /\ turn.op = "webhook"
  /\ turn.redelivered_past_noise
  /\ turn.resp.ignored = "dedup"

\* C8 as stated: when ensure_first_contact or mark_intent fails for a
\* delivery that passed the filters, the rule engine is still invoked and
\* its reply is still handed to the transport.
C8_AlwaysEngine ==
  (turn.op = "webhook" /\ turn.passed /\ turn.capture_error) =>
    /\ turn.engine
    /\ ~ turn.resp.paused => HasCall(turn, "send_text")

\* C8 amended: when ensure_first_contact or mark_intent fails for a delivery
\* that passed the filters and is not the "#leads" admin command, the
\* handler still answers ok, the rule engine is still invoked, and unless it
\* stays silent its reply is the last thing handed to the transport.
C8_Swallowed ==
  (turn.op = "webhook" /\ turn.passed /\ turn.capture_error
     /\ Lower(turn.text) /= <<"#leads">>) =>
    /\ turn.resp.status = "ok"
    /\ turn.engine
    /\ ~ turn.resp.paused =>
         /\ turn.calls[Len(turn.calls)].fn = "send_text"
         /\ turn.calls[Len(turn.calls)].arg = turn.reply

C8_Witness ==
  /\ turn.op = "webhook"
  /\ turn.passed
  /\ turn.capture_error
  /\ Lower(turn.text) /= <<"#leads">>
  /\ turn.engine
  /\ HasCall(turn, "send_text")

----------------------------------------------------------------------------
(* Specification of the rate limiter: a burst of plain messages of sender  *)
(* n1, a few messages of sender n2 in between, the clock advancing in      *)
(* steps that divide the window                                            *)

BURST_STEP == window_seconds \div 2

BurstDeliveries ==
  {[Plain EXCEPT !.text = <<"2">>],
   [Plain EXCEPT !.text = <<"2">>, !.remote = "n2@s.whatsapp.net"]}

InitBurst ==
  /\ InitStores
  /\ now = MONDAY_10H
  /\ config = DefaultConfig

BurstDeliver ==
  \E d \in BurstDeliveries : Webhook(d, Healthy) /\ Len(hist'.accepted["n2"]) <= MaxOther

BurstTick == Tick(BURST_STEP, MONDAY_10H + MaxBurst)

NextBurst == BurstDeliver \/ BurstTick

SpecBurst == InitBurst /\ [][NextBurst]_vars

\* accepted deliveries of sender n with a timestamp in [t, t + window_seconds]
InWindow(n, t) ==
  {i \in 1..Len(hist.accepted[n]) :
     t <= hist.accepted[n][i] /\ hist.accepted[n][i] <= t + window_seconds}

\* C7: for each sender, at most max_events deliveries with timestamps within
\* one window of window_seconds pass the limiter, and a delivery ignored as
\* "rate_limited" reaches neither the lead store nor the rule engine nor the
\* transport.
C7_RateLimit ==
  /\ \A n \in Numbers : \A i \in 1..Len(hist.accepted[n]) :
       Cardinality(InWindow(n, hist.accepted[n][i])) <= max_events
  /\ (turn.op = "webhook" /\ turn.resp.ignored = "rate_limited") =>
       (turn.calls = <<>> /\ ~ turn.passed /\ ~ turn.engine)

C7_Witness ==
  /\ turn.op = "webhook"
  /\ turn.resp.ignored = "rate_limited"
  /\ Len(hist.accepted[turn.number]) >= max_events

----------------------------------------------------------------------------
(* Specification of conversations: sender n1 talks to both agents, inside  *)
(* and outside business hours, the clock advancing past the handoff pause  *)

LEAD_ANA == <<"Ana", "-", "31999998888", "-", "Preco">>
LEAD_BOB == <<"Bob", "\n", "31888887777", "\n", "Placas">>
LEAD_BAD_PHONE == <<"Bob", "-", "123", "-", "Placas">>

ConvTexts ==
  {<<"MENU">>, <<"1">>, <<"2">>, <<"A">>, <<"Atendente">>, <<"Voltar">>, <<"oi", ",", "tudo">>,
   LEAD_ANA, LEAD_BOB, LEAD_BAD_PHONE}

ConvDeliveries ==
  {[Plain EXCEPT !.instance = i, !.text = t] : i \in {"inst1", "inst2"}, t \in ConvTexts}

ConvEnvs ==
  {Healthy, [Healthy EXCEPT !.save_fails = TRUE], [Healthy EXCEPT !.send_fails = TRUE]}

PAUSE_ELAPSED == PAUSE_MINUTES_ON_HANDOFF * 60 + 1

InitConv ==
  /\ InitStores
  /\ now = MONDAY_17H
  /\ config = DefaultConfig

ConvDeliver ==
  \E d \in ConvDeliveries, env \in ConvEnvs : Webhook(d, env) /\ WithinTurns

ConvTick == Tick(PAUSE_ELAPSED, MaxNow)

NextConv == ConvDeliver \/ ConvTick

SpecConv == InitConv /\ [][NextConv]_vars

\* the state the store holds for the conversation of sender number with agent
StateOf(us, agent_id, number) ==
  LET k == StateKey(agent_id, number)
  IN IF k \in DOMAIN us THEN us[k] ELSE EmptyState

\* C3: conversation state is kept per (agent, sender): after a turn of sender
\* s with agent A the store holds for (A, s) the state that the turn left,
\* and the state that s has with any other agent B is unchanged.
C3_StatePerAgentSender ==
  [][(turn'.op = "webhook" /\ turn'.engine) =>
       /\ StateOf(user_state', turn'.agent_id, turn'.number) = turn'.state
       /\ \A b \in AgentIds \ {turn'.agent_id} :
            StateOf(user_state', b, turn'.number) = StateOf(user_state, b, turn'.number)]_vars

\* position of the first call of fn in the turn, 0 when there is none
FirstCall(t, fn) ==
  IF HasCall(t, fn) THEN CHOOSE i \in 1..Len(t.calls) :
                           /\ t.calls[i].fn = fn
                           /\ \A j \in 1..(i - 1) : t.calls[j].fn /= fn
  ELSE 0

\* C4: whenever a turn moves the conversation of (agent, sender) into step
\* lead_captured with a newly parsed lead and the lead store works,
\* save_handoff_lead is called in that turn with the lead's name, phone and
\* subject before the reply goes to the transport, and lead_saved is true
\* afterwards.
C4_CaptureIsSaved ==
  (turn.op = "webhook" /\ IsSome(turn.captured) /\ ~ turn.save_error /\ ~ turn.capture_error) =>
    /\ HasCall(turn, "save_handoff_lead")
    /\ HasCall(turn, "send_text")
    /\ FirstCall(turn, "save_handoff_lead") < FirstCall(turn, "send_text")
    /\ turn.calls[FirstCall(turn, "save_handoff_lead")].arg =
         <<turn.captured[1].nome, turn.captured[1].telefone, turn.captured[1].assunto>>
    /\ turn.state.lead_saved

----------------------------------------------------------------------------
(* Specification of the two rule engines: one conversation dict handed     *)
(* from turn to turn to reply_for and to apply_rules, under every rules    *)
(* document, in and out of business hours and across the handoff pause     *)

EngineKey == <<"A1", "n1">>

EngineTexts ==
  ConvTexts \cup {<<"Humano">>, <<"3">>, <<"menu:orcamento">>, <<"-", "-">>, <<"Ana", "-", "-">>}

EngineRules == {RULES_EMPTY, RULES_SHOP, RULES_BAD_TEMPLATE}

InitEngine ==
  /\ InitStores
  /\ now = MONDAY_17H
  /\ config = DefaultConfig

EngineTurn(op, text, r) ==
  /\ conv' = [conv EXCEPT ![EngineKey] = r.state]
  /\ turn' = [NoTurn EXCEPT !.op = op, !.agent_id = EngineKey[1], !.number = EngineKey[2],
                            !.text = text, !.engine = TRUE, !.state = r.state, !.reply = r.reply]
  /\ UNCHANGED <<now, seen_ids, user_state, events, leads, rules_json, cache, config, hist, inflight>>

\* one message handled by rules.reply_for
ReplyForTurn ==
  \E text \in EngineTexts :
    EngineTurn("reply_for", text, reply_for(EngineKey[2], text, conv[EngineKey], now))

\* one message handled by rules_engine.apply_rules
ApplyRulesTurn ==
  \E text \in EngineTexts, rules \in EngineRules :
    EngineTurn("apply_rules", text, apply_rules(EngineKey[2], text, conv[EngineKey], rules, now))

EngineTick == Tick(PAUSE_ELAPSED, MaxNow)

NextEngine == ReplyForTurn \/ ApplyRulesTurn \/ EngineTick

SpecEngine == InitEngine /\ [][NextEngine]_vars

\* C6: in every conversation state the engines can reach, step ==
\* "lead_captured" implies that a lead object is present.
C6_CapturedHasLead ==
  \A k \in DOMAIN conv : conv[k].step = "lead_captured" => IsSome(conv[k].lead)

\* a capture by apply_rules on a dict in which reply_for recorded a service choice before
C6_Witness ==
  /\ turn.op = "apply_rules"
  /\ conv[EngineKey].step = "lead_captured"
  /\ IsSome(conv[EngineKey].lead)
  /\ conv[EngineKey].bot_paused_until = 0
  /\ conv[EngineKey].service_choice /= ""

----------------------------------------------------------------------------
(* Specification of the lead store: any sequence of calls of               *)
(* ensure_first_contact, mark_intent and save_handoff_lead, for tenants    *)
(* with and without agent id, padded arguments and a failing database      *)

LegacyConfig == [DefaultConfig EXCEPT !.DEFAULT_CLIENT_ID = "c1"]

LeadClients == {"c1", ""}
LeadAgents == {"A1", " "}
LeadNumbers == {" n1 ", "n2", ""}
LeadForms == {[nome |-> <<"Ana">>, telefone |-> <<"31999998888">>, assunto |-> <<"Preco">>]}

InitLeads ==
  /\ InitStores
  /\ now = MONDAY_10H
  /\ config \in {DefaultConfig, LegacyConfig}

\* one call r of fn; the session fails (nothing committed) when db_fails
LeadCall(fn, r, db_fails) ==
  /\ leads' \in (IF db_fails THEN {leads} ELSE r.tables)
  /\ Len(leads') <= MaxLeadRows
  /\ turn' = [NoTurn EXCEPT !.op = fn, !.capture_error = r.raised \/ db_fails]
  /\ UNCHANGED <<now, seen_ids, user_state, events, rules_json, cache, config, conv, hist, inflight>>

EnsureFirstContactCall ==
  \E c \in LeadClients, a \in LeadAgents, n \in LeadNumbers, db_fails \in BOOLEAN :
    LeadCall("ensure_first_contact",
             ensure_first_contact(leads, config.DEFAULT_CLIENT_ID, c, a, "inst1", n, now), db_fails)

MarkIntentCall ==
  \E c \in LeadClients, a \in LeadAgents, n \in LeadNumbers, db_fails \in BOOLEAN :
    LeadCall("mark_intent",
             mark_intent(leads, config.DEFAULT_CLIENT_ID, c, a, "inst1", n, <<"Preco">>, now), db_fails)

SaveHandoffLeadCall ==
  \E c \in LeadClients, a \in LeadAgents, n \in LeadNumbers, f \in LeadForms, db_fails \in BOOLEAN :
    LeadCall("save_handoff_lead",
             save_handoff_lead(leads, config.DEFAULT_CLIENT_ID, c, a, "inst1", n,
                               f.nome, f.telefone, f.assunto, now), db_fails)

NextLeads == EnsureFirstContactCall \/ MarkIntentCall \/ SaveHandoffLeadCall

SpecLeads == InitLeads /\ [][NextLeads]_vars

\* the logical contact of a row
Contact(row) == <<row.client_id, row.agent_id, row.from_number>>

OneRowPerContact(rows) ==
  \A i, j \in 1..Len(rows) : Contact(rows[i]) = Contact(rows[j]) => i = j

\* every row is still there, for the same contact
RowsKept(before, after) ==
  /\ Len(after) >= Len(before)
  /\ \A i \in 1..Len(before) :
       Contact(after[i]) = Contact(before[i]) /\ after[i].created_at = before[i].created_at

\* C9: after any sequence of ensure_first_contact, mark_intent and
\* save_handoff_lead calls the lead store holds at most one row per logical
\* contact (client_id, agent_id, sender), and no call deletes a row.
C9_OneRowPerContact == [][OneRowPerContact(leads') /\ RowsKept(leads, leads')]_vars

\* the same sender has a row with an agent and a row without; the row the
\* last call saved had been created and marked by earlier calls
C9_Witness ==
  /\ turn.op = "save_handoff_lead"
  /\ \E i, j \in 1..Len(leads) :
       /\ leads[i].from_number = leads[j].from_number
       /\ leads[i].agent_id = "A1" /\ leads[j].agent_id = ""
       /\ leads[i].from_number = "n1"
       /\ leads[i].lead_saved /\ leads[i].intent_detected /= <<>>

----------------------------------------------------------------------------
(* Specification of the rules cache: the admin editor saves and resets     *)
(* rules while messages load them, with a database that may fail           *)

RulesTexts == {"", "[]", "{not json", "{}", "{shop}", "{bad_template}"}

InitRules ==
  /\ InitStores
  /\ now = MONDAY_10H
  /\ config = DefaultConfig

\* what the properties remember of a write: the document, and whether the
\* cache held an entry for the agent when it was written
Written(agent_id, parsed) ==
  [hist EXCEPT !.written[agent_id] = Some([rules |-> parsed, dropped |-> IsSome(cache[agent_id])])]

SaveRules(op, agent_id, parsed, db_fails) ==
  LET aid == StripStr(agent_id)
      w == write_rules(rules_json, cache, aid, parsed[1])
      done == IsSome(parsed) /\ aid \in DOMAIN rules_json /\ ~ db_fails
  IN /\ rules_json' = IF done THEN w.db ELSE rules_json
     /\ cache' = IF done THEN w.cache ELSE cache
     /\ hist' = IF done THEN Written(aid, parsed[1]) ELSE hist
     /\ turn' = [NoTurn EXCEPT !.op = op, !.agent_id = aid, !.passed = done]
     /\ UNCHANGED <<now, seen_ids, user_state, events, leads, config, conv, inflight>>

\* admin_web.agent_rules_save
agent_rules_save ==
  \E a \in CacheKeys, rules_text \in RulesTexts, db_fails \in BOOLEAN :
    SaveRules("agent_rules_save", a, parse_rules_text(rules_text), db_fails)

\* admin_web.agent_rules_reset
agent_rules_reset ==
  \E a \in CacheKeys, db_fails \in BOOLEAN :
    SaveRules("agent_rules_reset", a, Some(RULES_TEMPLATE), db_fails)

\* a message makes the engine load the rules of its agent
LoadRules ==
  \E a \in CacheKeys \cup {""}, db_fails \in BOOLEAN :
    LET r == load_rules_for_agent(cache, rules_json, a, now, db_fails)
    IN /\ cache' = r.cache
       /\ turn' = [NoTurn EXCEPT !.op = "load_rules_for_agent", !.agent_id = a,
                                 !.rules = r.rules, !.capture_error = ~ IsSome(r.rules)]
       /\ UNCHANGED <<now, seen_ids, user_state, events, leads, rules_json, config, conv, hist, inflight>>

RulesTick == Tick(1, MONDAY_10H + 1)

NextRules == agent_rules_save \/ agent_rules_reset \/ LoadRules \/ RulesTick

SpecRules == InitRules /\ [][NextRules]_vars

\* C10: once an agent's rules have been written and invalidate_agent_rules
\* has been called for the agent, every load_rules_for_agent that returns
\* returns exactly the rules written last, as a whole value.
C10_LoadAfterInvalidate ==
  [][(/\ turn'.op = "load_rules_for_agent"
      /\ turn'.agent_id \in CacheKeys
      /\ IsSome(hist.written[turn'.agent_id])
      /\ IsSome(turn'.rules))
     => turn'.rules[1] = hist.written[turn'.agent_id][1].rules]_vars

\* a load that returns rules written over a cached, different document
C10_Witness ==
  /\ turn.op = "load_rules_for_agent"
  /\ turn.agent_id = "A1"
  /\ turn.rules = Some(RULES_SHOP)
  /\ IsSome(hist.written["A1"])
  /\ hist.written["A1"][1].dropped
  /\ hist.written["A1"][1].rules = RULES_SHOP

----------------------------------------------------------------------------
(* Properties of the response body *)

REASON_CODES ==
  {"bad_json", "missing_instance", "unknown_instance", "update", "ack/status_no_text",
   "from_me_or_group", "dedup", "missing_number_or_text", "rate_limited",
   "admin_unauthorized", "paused"}

\* C11: every delivery dropped for one of the listed causes is answered with
\* a body {ok: true, ignored: <reason>} whose reason is the listed code of
\* the cause, the code under which the handler counts the drop.
C11_ReasonCodes ==
  (turn.op = "webhook" /\ turn.label \in REASON_CODES) =>
    /\ turn.resp.status = "ok"
    /\ turn.resp.ignored = turn.label

\* C12: when the rule engine produced a reply, the response has ok = true
\* and reports sent = true exactly when send_text returned and sent = false
\* exactly when send_text raised.
C12_SentReportsSend ==
  (turn.op = "webhook" /\ turn.engine /\ IsSome(turn.reply)) =>
    /\ turn.resp.status = "ok"
    /\ HasCall(turn, "send_text")
    /\ turn.resp.sent = "true" <=> ~ turn.send_error
    /\ turn.resp.sent = "false" <=> turn.send_error

\* a reply whose send raised, reported as sent = false
C12_Witness ==
  /\ turn.op = "webhook"
  /\ turn.engine
  /\ IsSome(turn.reply)
  /\ turn.send_error
  /\ turn.resp.sent = "false"

----------------------------------------------------------------------------
(* Specification of the handoff pause: sender n1 asks agent A1 for an      *)
(* attendant, submits the contact and writes again, as admin and not       *)

PauseTexts == {<<"Atendente">>, LEAD_ANA, <<"MENU">>, <<"#LEADS">>}

PauseDeliveries == {[Plain EXCEPT !.text = t] : t \in PauseTexts}

PauseEnvs ==
  {Healthy, [Healthy EXCEPT !.send_fails = TRUE], [Healthy EXCEPT !.leads_fails = TRUE]}

InitPause ==
  /\ InitStores
  /\ now = MONDAY_10H
  /\ config \in {DefaultConfig, DevConfig}

PauseDeliver ==
  \E d \in PauseDeliveries, env \in PauseEnvs :
    Webhook(d, env) /\ Len(hist'.accepted["n1"]) <= MaxPauseTurns

PauseTick == Tick(PAUSE_ELAPSED, MaxNow)

NextPause == PauseDeliver \/ PauseTick

SpecPause == InitPause /\ [][NextPause]_vars

CountCalls(t, fn) == Cardinality({i \in 1..Len(t.calls) : t.calls[i].fn = fn})

\* C13: a webhook delivery causes at most one send_text call; and when the
\* rule engine, given the state of the conversation, returns None because
\* the conversation is paused, the delivery causes no send_text call and no
\* save_handoff_lead call and is answered with ok = true and the paused flag.
C13_OneOutboundAction ==
  turn.op = "webhook" =>
    /\ CountCalls(turn, "send_text") <= 1
    /\ (turn.engine /\ turn.conv_paused) =>
         /\ ~ HasCall(turn, "send_text")
         /\ ~ HasCall(turn, "save_handoff_lead")
         /\ turn.resp.status = "ok"
         /\ turn.resp.paused

----------------------------------------------------------------------------
(* Specification of apply_rules alone: one conversation dict handed from   *)
(* turn to turn, under five rules documents, with the clock running over   *)
(* the closing minute 18:00; the caller marks a captured lead as saved      *)

MONDAY_18H == 18 * 3600

LEAD_NO_NAME == <<"-", "31999998888", "-", "Preco">>
LEAD_FOUR_PARTS == <<"Ana", "-", "31999998888", "-", "Preco", "-", "Placas">>
TWO_PARTS == <<"Ana", "-", "31999998888">>
KEYWORD_DASH == <<"fale", "-", "com", "-", "humano">>

ApplyTexts ==
  {<<"Atendente">>, <<"Humano">>, KEYWORD_DASH, <<"MENU">>, <<"Voltar">>, <<"1">>, <<"2">>,
   <<"menu:orcamento">>, <<"Ana">>, TWO_PARTS, LEAD_ANA, LEAD_NO_NAME, LEAD_FOUR_PARTS}

ApplyRules == {RULES_EMPTY, RULES_SHOP, RULES_BAD_TEMPLATE, RULES_TEMPLATE, RULES_DASH}

InitApply ==
  /\ InitStores
  /\ now = MONDAY_18H - 60
  /\ config = DefaultConfig

\* one message handled by rules_engine.apply_rules under the rules document
ApplyTurn ==
  \E text \in ApplyTexts, rules \in ApplyRules :
    LET r == apply_rules(EngineKey[2], text, conv[EngineKey], rules, now)
    IN /\ conv' = [conv EXCEPT ![EngineKey] = r.state]
       /\ turn' = [NoTurn EXCEPT !.op = "apply_rules", !.text = text, !.rules = Some(rules),
                                 !.engine = TRUE, !.state = r.state, !.reply = r.reply]
       /\ UNCHANGED <<now, seen_ids, user_state, events, leads, rules_json, cache, config, hist, inflight>>

\* the caller saved the captured lead: state["lead_saved"] = True
ApplySaved ==
  /\ should_save(conv[EngineKey])
  /\ conv' = [conv EXCEPT ![EngineKey].lead_saved = TRUE]
  /\ turn' = [NoTurn EXCEPT !.op = "lead_saved", !.state = conv'[EngineKey]]
  /\ UNCHANGED <<now, seen_ids, user_state, events, leads, rules_json, cache, config, hist, inflight>>

ApplyTick == Tick(60, MONDAY_18H + 60)

NextApply == ApplyTurn \/ ApplySaved \/ ApplyTick

SpecApply == InitApply /\ [][NextApply]_vars

\* what the properties read: the dict before and after the step, and the
\* rules document, keyword and templates of the step
Before == conv[EngineKey]
After == conv'[EngineKey]
IsApply == turn'.op = "apply_rules"
TurnRules == turn'.rules[1]
Keyword(rules) ==
  LowerTok(StripStr(IF rules.handoff_keyword /= "" THEN rules.handoff_keyword ELSE "atendente"))
IsKeyword == JoinStr(Lower(turn'.text)) = Keyword(TurnRules)
HandoffPrompt(rules) ==
  IF IsSome(rules.messages.handoff_prompt) THEN rules.messages.handoff_prompt[1]
  ELSE DEFAULT_HANDOFF_PROMPT

\* C14: in apply_rules a message whose trimmed, lowercased text equals the
\* configured handoff keyword (default "atendente") sets step =
\* handoff_collect and returns the handoff_prompt template, from every prior
\* step, inside and outside business hours, and so also when the keyword is
\* sent twice in a row.
C14_KeywordHandoff ==
  [][(IsApply /\ IsKeyword) =>
       /\ After.step = "handoff_collect"
       /\ turn'.reply = Some(HandoffPrompt(TurnRules))]_vars

\* the tenant's keyword sent after closing time in a conversation that had
\* captured a lead before
C14_Witness ==
  /\ turn.op = "apply_rules"
  /\ turn.text = <<"Humano">>
  /\ turn.rules = Some(RULES_SHOP)
  /\ now > MONDAY_18H
  /\ IsSome(conv[EngineKey].lead)
  /\ conv[EngineKey].step = "handoff_collect"
  /\ turn.reply = RULES_SHOP.messages.handoff_prompt

\* hours.mode = business and the minute of the day outside [open, close]
OffHours(rules, tnow) ==
  LET open_min == MinutesOf(IF rules.hours.open /= "" THEN rules.hours.open ELSE "08:00")
      close_min == MinutesOf(IF rules.hours.close /= "" THEN rules.hours.close ELSE "18:00")
      minute == (tnow % 86400) \div 60
  IN LowerTok(rules.hours.mode) = "business" /\ (minute < open_min \/ minute > close_min)

OffHoursText(rules) ==
  IF IsSome(rules.messages.off_hours) THEN rules.messages.off_hours[1] ELSE DEFAULT_OFF_HOURS

\* C15 as stated: outside business hours with step not in {handoff_collect,
\* lead_captured} apply_rules returns the off_hours template whatever the
\* message says, and leaves the conversation state unchanged.
C15_OffHoursAnyText ==
  [][(IsApply /\ OffHours(TurnRules, now) /\ Before.step \notin {"handoff_collect", "lead_captured"}) =>
       /\ turn'.reply = Some(OffHoursText(TurnRules))
       /\ After = Before]_vars

\* C15 amended: outside business hours with step not in {handoff_collect,
\* lead_captured}, every message other than the handoff keyword is answered
\* with the off_hours template and leaves the conversation state unchanged.
C15_OffHours ==
  [][(IsApply /\ OffHours(TurnRules, now) /\ ~ IsKeyword
        /\ Before.step \notin {"handoff_collect", "lead_captured"}) =>
       /\ turn'.reply = Some(OffHoursText(TurnRules))
       /\ After = Before]_vars

\* a contact submission after closing time in a conversation at the menu,
\* answered with the tenant's off_hours text
C15_Witness ==
  /\ turn.op = "apply_rules"
  /\ turn.rules = Some(RULES_SHOP)
  /\ now = MONDAY_18H + 60
  /\ turn.text = LEAD_ANA
  /\ conv[EngineKey].step = "menu"
  /\ turn.reply = RULES_SHOP.messages.off_hours

\* the parts of t.split("-")
Parts(text) == Split(text, {"-"})

\* C16 as stated: once step == handoff_collect the business-hours gate never
\* produces the reply; whatever the clock says, a message of at least three
\* parts moves the conversation to lead_captured.
C16_AnyThreeParts ==
  [][(IsApply /\ Before.step = "handoff_collect" /\ Len(Parts(turn'.text)) >= 3) =>
       After.step = "lead_captured"]_vars

\* C16 amended: once step == handoff_collect the business-hours gate never
\* produces the reply; whatever the clock says, a message of at least three
\* parts that is not the handoff keyword moves the conversation to
\* lead_captured with a lead.
C16_CollectBypassesGate ==
  [][(IsApply /\ Before.step = "handoff_collect" /\ ~ IsKeyword
        /\ Len(Parts(turn'.text)) >= 3) =>
       /\ After.step = "lead_captured"
       /\ IsSome(After.lead)]_vars

\* a submission after closing time that is captured
C16_Witness ==
  /\ turn.op = "apply_rules"
  /\ turn.rules = Some(RULES_SHOP)
  /\ OffHours(RULES_SHOP, now)
  /\ turn.text = LEAD_ANA
  /\ conv[EngineKey].step = "lead_captured"
  /\ IsSome(conv[EngineKey].lead)
  /\ turn.reply /= RULES_SHOP.messages.off_hours

----------------------------------------------------------------------------
(* Properties of the two engines on a captured conversation *)

IsEngineTurn == turn'.op \in {"reply_for", "apply_rules"}

\* C17: once the step of a conversation is lead_captured, every later
\* message leaves step == lead_captured and leaves lead and lead_saved
\* untouched, except an explicit reactivation command ("voltar",
\* "reativar", "#on"), which clears step, lead and lead_saved.
C17_CapturedPersists ==
  [][(IsEngineTurn /\ Before.step = "lead_captured") =>
       IF Lower(turn'.text) \in REACTIVATE
       THEN After.step = "" /\ After.lead = None /\ ~ After.lead_saved
       ELSE After.step = "lead_captured" /\ After.lead = Before.lead
            /\ After.lead_saved = Before.lead_saved]_vars

----------------------------------------------------------------------------
(* Properties of the handoff collection of apply_rules *)

HandoffOk(rules) ==
  IF IsSome(rules.messages.handoff_ok) THEN rules.messages.handoff_ok[1] ELSE DEFAULT_HANDOFF_OK

HandoffRetry(rules) ==
  IF IsSome(rules.messages.handoff_retry) THEN rules.messages.handoff_retry[1]
  ELSE DEFAULT_HANDOFF_RETRY

\* every replacement field of the template is one of {nome}, {telefone}, {assunto}
WellFormed(tpl) == \A i \in 1..Len(tpl) : IsField(tpl[i]) => tpl[i] \in PLACEHOLDERS

\* the lead that a submission of at least three parts spells
LeadOf(text) ==
  LET parts == Parts(text)
  IN [nome |-> parts[1], telefone |-> parts[2],
      assunto |-> Flatten(SubSeq(parts, 3, Len(parts)), <<"-">>)]

\* C18 as stated: with step == handoff_collect a message of at least three
\* parts stores lead = {name: first part, phone: second part, subject: the
\* other parts rejoined with "-"}, sets step = lead_captured and returns the
\* handoff_ok template with the name substituted.
C18_ThreeParts ==
  [][(IsApply /\ Before.step = "handoff_collect" /\ Len(Parts(turn'.text)) >= 3) =>
       LET lead == LeadOf(turn'.text)
       IN /\ After.lead = Some(lead)
          /\ After.step = "lead_captured"
          /\ turn'.reply = Some(Substitute(HandoffOk(TurnRules), lead.nome, lead.telefone,
                                           lead.assunto))]_vars

\* C18 amended: with step == handoff_collect a message of at least three
\* parts that is not the handoff keyword stores lead = {name, phone, subject
\* = the other parts rejoined with "-"}, sets step = lead_captured and
\* returns the handoff_ok template with name, phone and subject substituted,
\* the name replaced by a smiley when it is empty; a template with a
\* replacement field other than these three is returned as it is.
C18_Capture ==
  [][(IsApply /\ Before.step = "handoff_collect" /\ ~ IsKeyword
        /\ Len(Parts(turn'.text)) >= 3) =>
       LET lead == LeadOf(turn'.text)
           tpl == HandoffOk(TurnRules)
           shown == IF lead.nome /= <<>> THEN lead.nome ELSE <<":)">>
       IN /\ After.lead = Some(lead)
          /\ After.step = "lead_captured"
          /\ turn'.reply = Some(IF WellFormed(tpl)
                                THEN Substitute(tpl, shown, lead.telefone, lead.assunto)
                                ELSE tpl)]_vars

\* a submission of four parts, captured with the last two as the subject
\* and confirmed with the tenant's template
C18_Witness ==
  /\ turn.op = "apply_rules"
  /\ turn.rules = Some(RULES_SHOP)
  /\ turn.text = LEAD_FOUR_PARTS
  /\ conv[EngineKey].step = "lead_captured"
  /\ conv[EngineKey].lead = Some([nome |-> <<"Ana">>, telefone |-> <<"31999998888">>,
                                  assunto |-> <<"Preco", "-", "Placas">>])
  /\ turn.reply = Some(<<"Valeu, ", "Ana", "! Assunto: ", "Preco", "-", "Placas">>)

\* C19: in apply_rules with step == handoff_collect a message of fewer than
\* three parts that is not the handoff keyword, "menu" or "voltar" returns
\* the handoff_retry template and leaves step, lead and lead_saved unchanged.
C19_RetryKeepsState ==
  [][(IsApply /\ Before.step = "handoff_collect" /\ Len(Parts(turn'.text)) < 3
        /\ ~ IsKeyword /\ Lower(turn'.text) \notin {<<"menu">>, <<"voltar">>}) =>
       /\ turn'.reply = Some(HandoffRetry(TurnRules))
       /\ After.step = Before.step
       /\ After.lead = Before.lead
       /\ After.lead_saved = Before.lead_saved]_vars

\* a two-part submission after closing time, answered with the tenant's
\* retry text while the conversation stays in the collection
C19_Witness ==
  /\ turn.op = "apply_rules"
  /\ turn.rules = Some(RULES_DASH)
  /\ turn.text = TWO_PARTS
  /\ now > MONDAY_18H
  /\ turn.reply = RULES_DASH.messages.handoff_retry
  /\ conv[EngineKey].step = "handoff_collect"
  /\ conv[EngineKey].lead = None

----------------------------------------------------------------------------
(* Properties of the first message under an empty rules document *)

IsFirstMessage == IsApply /\ TurnRules = RULES_EMPTY /\ Before = EmptyState

\* C20 as stated: for a tenant with default or empty rules the first message
\* of a fresh conversation, whatever its text, yields the default welcome
\* message and leaves step == "welcome".
C20_AnyFirstText ==
  [][IsFirstMessage =>
       turn'.reply = Some(DEFAULT_WELCOME) /\ After.step = "welcome"]_vars

\* C20 amended: for a tenant with empty rules the first message of a fresh
\* conversation yields the default welcome message and step == "welcome"
\* unless its text is "atendente", "menu" or "voltar" in any letter case:
\* "atendente" yields the default handoff prompt and step == handoff_collect,
\* "menu" and "voltar" yield the menu and step == "menu".
C20_FirstMessage ==
  [][IsFirstMessage =>
       IF Lower(turn'.text) = <<"atendente">>
       THEN turn'.reply = Some(DEFAULT_HANDOFF_PROMPT) /\ After.step = "handoff_collect"
       ELSE IF Lower(turn'.text) \in {<<"menu">>, <<"voltar">>}
       THEN turn'.reply = Some(<<"*Menu*", "\n">> \o MENU_FOOTER) /\ After.step = "menu"
       ELSE turn'.reply = Some(DEFAULT_WELCOME) /\ After.step = "welcome"]_vars

\* a first message that would be a menu option elsewhere, welcomed
C20_Witness ==
  /\ turn.op = "apply_rules"
  /\ turn.rules = Some(RULES_EMPTY)
  /\ turn.text = <<"1">>
  /\ turn.reply = Some(DEFAULT_WELCOME)
  /\ conv[EngineKey] = [EmptyState EXCEPT !.step = "welcome"]

----------------------------------------------------------------------------
(* Specification of reply_for alone: one conversation dict handed from     *)
(* turn to turn, the caller marking a captured lead as saved, the clock    *)
(* advancing past the handoff pause                                        *)

ReplyTexts ==
  {<<"MENU">>, <<"1">>, <<"A">>, <<"Atendente">>, <<"Voltar">>, <<"Reativar">>, <<"#ON">>,
   <<"oi", ",", "tudo">>, LEAD_ANA, LEAD_BAD_PHONE}

InitReply ==
  /\ InitStores
  /\ now = MONDAY_17H
  /\ config = DefaultConfig

\* one message handled by rules.reply_for
ReplyTurn ==
  \E text \in ReplyTexts :
    LET r == reply_for(EngineKey[2], text, conv[EngineKey], now)
    IN /\ conv' = [conv EXCEPT ![EngineKey] = r.state]
       /\ turn' = [NoTurn EXCEPT !.op = "reply_for", !.text = text, !.engine = TRUE,
                                 !.state = r.state, !.reply = r.reply]
       /\ UNCHANGED <<now, seen_ids, user_state, events, leads, rules_json, cache, config, hist, inflight>>

\* the caller saved the captured lead: state["lead_saved"] = True
ReplySaved ==
  /\ should_save(conv[EngineKey])
  /\ conv' = [conv EXCEPT ![EngineKey].lead_saved = TRUE]
  /\ turn' = [NoTurn EXCEPT !.op = "lead_saved", !.state = conv'[EngineKey]]
  /\ UNCHANGED <<now, seen_ids, user_state, events, leads, rules_json, cache, config, hist, inflight>>

ReplyTick == Tick(PAUSE_ELAPSED, MaxNow)

NextReply == ReplyTurn \/ ReplySaved \/ ReplyTick

SpecReply == InitReply /\ [][NextReply]_vars

IsReplyFor == turn'.op = "reply_for"

\* C21: in reply_for, while bot_paused_until lies in the future every message
\* other than "voltar", "reativar" and "#on" yields None and changes nothing
\* in the state; a reactivation command always yields a reply, also while
\* paused, and removes bot_paused_until, step, lead and lead_saved; no other
\* message removes any of these keys.
C21_PauseAndReactivation ==
  [][IsReplyFor =>
       IF Lower(turn'.text) \in {<<"voltar">>, <<"reativar">>, <<"#on">>}
       THEN /\ IsSome(turn'.reply)
            /\ After.bot_paused_until = 0 /\ After.step = ""
            /\ After.lead = None /\ ~ After.lead_saved
       ELSE /\ now < Before.bot_paused_until => (turn'.reply = None /\ After = Before)
            /\ Before.bot_paused_until /= 0 => After.bot_paused_until /= 0
            /\ Before.step /= "" => After.step /= ""
            /\ IsSome(Before.lead) => IsSome(After.lead)
            /\ Before.lead_saved => After.lead_saved]_vars

\* a silent turn: a message other than the commands met the pause of a
\* saved lead and left the conversation as it was
C21_Witness ==
  /\ turn.op = "reply_for"
  /\ turn.text = <<"MENU">>
  /\ turn.reply = None
  /\ conv[EngineKey].step = "lead_captured"
  /\ conv[EngineKey].lead_saved
  /\ now < conv[EngineKey].bot_paused_until

----------------------------------------------------------------------------
(* Specification of the rules cache when a write is not followed by the    *)
(* invalidation in this process: db.refresh raises after db.commit, or the *)
(* editor runs in another worker process with a cache of its own           *)

FreshTexts == {"{}", "{shop}"}

InitFresh ==
  /\ InitStores
  /\ now = MONDAY_10H
  /\ config = DefaultConfig

\* admin_web.agent_rules_save up to db.commit(): the table is written, the
\* cache of this process is left as it is
agent_rules_commit_only ==
  \E a \in AgentIds, rules_text \in FreshTexts :
    LET parsed == parse_rules_text(rules_text)
    IN /\ IsSome(parsed)
       /\ rules_json' = [rules_json EXCEPT ![a] = parsed[1]]
       /\ turn' = [NoTurn EXCEPT !.op = "agent_rules_save", !.agent_id = a, !.capture_error = TRUE]
       /\ UNCHANGED <<now, seen_ids, user_state, events, leads, cache, config, conv, hist, inflight>>

\* admin_web.agent_rules_save of this process, invalidation included
FreshSave ==
  \E a \in AgentIds, rules_text \in FreshTexts :
    SaveRules("agent_rules_save", a, parse_rules_text(rules_text), FALSE)

\* a message makes the engine load the rules of its agent
FreshLoad ==
  \E a \in AgentIds :
    LET r == load_rules_for_agent(cache, rules_json, a, now, FALSE)
    IN /\ cache' = r.cache
       /\ turn' = [NoTurn EXCEPT !.op = "load_rules_for_agent", !.agent_id = a, !.rules = r.rules]
       /\ UNCHANGED <<now, seen_ids, user_state, events, leads, rules_json, config, conv, hist, inflight>>

FreshTick == Tick(1, MONDAY_10H + 1)

NextFresh == agent_rules_commit_only \/ FreshSave \/ FreshLoad \/ FreshTick

SpecFresh == InitFresh /\ [][NextFresh]_vars

\* C22: with the cache TTL of 0 every load_rules_for_agent(agent_id) returns
\* the rules that the tenant store holds at that moment, also when they were
\* changed since the previous load and no invalidation was called.
C22_AlwaysFresh ==
  [][(turn'.op = "load_rules_for_agent" /\ IsSome(turn'.rules))
       => turn'.rules[1] = rules_json[turn'.agent_id]]_vars

----------------------------------------------------------------------------
(* ai_guard.py : the gate of the assistive rewrite *)

\* len() of a token of the replies below
Chars(tok) ==
  CASE tok \in {" ", "\n", "-", "1", "2"} -> 1
    [] tok \in {"Ok.", "ok."} -> 3
    [] tok \in {"Digite", "digite", "Vendas", "vendas"} -> 6
    [] tok \in {"Suporte", "suporte"} -> 7
    [] tok = "nosso prazo de entrega e de 5 dias uteis." -> 41
    [] tok = "nosso prazo de entrega e de cinco dias uteis." -> 45
    [] tok = "nosso prazo de entrega e de cinco dias uteis!!" -> 46
    [] tok = " seu codigo para consultar o andamento da sua entrega agora." -> 60
    [] tok = "nosso prazo de entrega para a sua regiao e de cinco dias uteis apos o pagamento." -> 80
    [] OTHER -> 9

\* len(s)
StrLen(s) == SumSeq([i \in 1..Len(s) |-> Chars(s[i])])

RECURSIVE LStrip(_)
LStrip(s) == IF s /= <<>> /\ Head(s) \in {" ", "\n"} THEN LStrip(Tail(s)) ELSE s

RECURSIVE RStrip(_)
RStrip(s) ==
  IF s /= <<>> /\ s[Len(s)] \in {" ", "\n"} THEN RStrip(SubSeq(s, 1, Len(s) - 1)) ELSE s

\* ai_guard._norm: (s or "").strip().lower(); s is None or Some(text)
_norm(s) == IF IsSome(s) THEN Lower(RStrip(LStrip(s[1]))) ELSE <<>>

MENU_PHRASES == {"escolha uma opcao", "digite o numero"}

\* ai_guard._has_menu_shape: a line that starts with a number followed by
\* "-", ")" or ".", or one of the menu phrases
_has_menu_shape(text) ==
  LET t == _norm(Some(text))
      lines == Split(t, {"\n"})
      numbered(line) ==
        LET l == SelectSeq(line, LAMBDA tok : tok /= " ")
        IN Len(l) >= 2 /\ DigitsOf(l[1]) > 0 /\ l[2] \in {"-", ")", "."}
  IN /\ t /= <<>>
     /\ \/ \E i \in 1..Len(lines) : numbered(lines[i])
        \/ \E i \in 1..Len(t) : t[i] \in MENU_PHRASES

OPERATIONAL_KEYWORDS ==
  {"digite", "menu", "opcao", "clique", "escolha", "envie no formato",
   "nome - telefone - assunto", "nome-telefone-assunto", "para prosseguir",
   "para continuar", "para avancar", "aguarde", "encaminhar"}

\* a length test that no reply passes
is_short_never(t) == FALSE

\* len(t) <= 45
is_short(t) == StrLen(t) <= 45

\* ai_guard._looks_operational
_looks_operational(text) ==
  LET t == _norm(Some(text))
  IN \/ t = <<>>
     \/ is_short(t)
     \/ \E i \in 1..Len(t) : t[i] \in OPERATIONAL_KEYWORDS

\* a step test that lets every step through
handoff_step_none(step) == FALSE

\* step in {"handoff_collect", "lead_captured"}
handoff_step(step) == step \in {"handoff_collect", "lead_captured"}

\* ai_guard.ai_should_run: (allowed, reason)
ai_should_run(user_text, base_reply, state, paused) ==
  LET bt == _norm(base_reply)
      ut == _norm(Some(user_text))
      no(reason) == [allowed |-> FALSE, reason |-> reason]
  IN IF paused THEN no("paused")
     ELSE IF bt = <<>> THEN no("empty_base_reply")
     ELSE IF Contains(ut, "atendente") THEN no("user_requested_handoff")
     ELSE IF handoff_step(state.step) THEN no("handoff_step:" \o state.step)
     ELSE IF IsSome(state.lead) /\ ~ state.lead_saved THEN no("lead_capturing")
     ELSE IF _has_menu_shape(bt) THEN no("menu_shape_in_base_reply")
     ELSE IF _looks_operational(bt) THEN no("operational_base_reply")
     ELSE [allowed |-> TRUE, reason |-> "ok"]

----------------------------------------------------------------------------
(* Specification of the gate: ai_should_run applied to every combination   *)
(* of user text, base reply, conversation state and pause flag             *)

REPLY_41 == <<"nosso prazo de entrega e de 5 dias uteis.">>
REPLY_45 == <<"nosso prazo de entrega e de cinco dias uteis.">>
REPLY_46 == <<"nosso prazo de entrega e de cinco dias uteis!!">>
REPLY_80 == <<"nosso prazo de entrega para a sua regiao e de cinco dias uteis apos o pagamento.">>
REPLY_DIGITE == <<"Digite", " seu codigo para consultar o andamento da sua entrega agora.">>
REPLY_MENU == <<"1", " ", "-", " ", "Vendas", "\n", "2", " ", "-", " ", "Suporte">>

GateReplies ==
  {None, Some(<<" ">>), Some(<<"Ok.">>), Some(REPLY_41), Some(REPLY_45), Some(REPLY_46),
   Some(REPLY_46 \o <<" ">>), Some(REPLY_80), Some(REPLY_DIGITE), Some(REPLY_MENU)}

GateTexts == {<<"oi">>, <<"Atendente">>, <<"Quero Atendente">>, <<"Humano">>}

GateLead == [nome |-> <<"Ana">>, telefone |-> <<"31999998888">>, assunto |-> <<"Preco">>]

\* conversation states the engines leave behind
GateStates ==
  {[EmptyState EXCEPT !.step = s, !.lead = l, !.lead_saved = v] :
     s \in {"", "menu", "handoff_collect", "lead_captured"},
     l \in {None, Some(GateLead)}, v \in BOOLEAN}

InitGate ==
  /\ InitStores
  /\ now = MONDAY_10H
  /\ config = DefaultConfig

\* one decision of the gate
GateCall ==
  \E user_text \in GateTexts, base_reply \in GateReplies, state \in GateStates, paused \in BOOLEAN :
    LET r == ai_should_run(user_text, base_reply, state, paused)
    IN /\ (state.step = "lead_captured" => IsSome(state.lead))
       /\ (state.lead_saved => IsSome(state.lead))
       /\ turn' = [NoTurn EXCEPT !.op = "ai_should_run", !.text = user_text, !.reply = base_reply,
                                 !.state = state, !.conv_paused = paused,
                                 !.passed = r.allowed, !.label = r.reason]
       /\ UNCHANGED <<now, seen_ids, user_state, events, leads, rules_json, cache, config, conv, hist, inflight>>

NextGate == GateCall

SpecGate == InitGate /\ [][NextGate]_vars

IsGate == turn.op = "ai_should_run"
\* characters of the base reply as passed (None counts as empty)
BaseLen == IF IsSome(turn.reply) THEN StrLen(turn.reply[1]) ELSE 0
\* a rule that precedes the tests on the shape of the base reply applies
EarlierRule ==
  \/ turn.conv_paused
  \/ _norm(turn.reply) = <<>>
  \/ Contains(Lower(turn.text), "atendente")
  \/ turn.state.step \in {"handoff_collect", "lead_captured"}
  \/ IsSome(turn.state.lead) /\ ~ turn.state.lead_saved

\* C23 as stated: ai_should_run returns (False, "operational_base_reply")
\* for any base reply of at most 45 characters.
C23_ShortIsOperational ==
  (IsGate /\ BaseLen <= 45) => (~ turn.passed /\ turn.label = "operational_base_reply")

\* C23 amended: for any base reply of at most 45 characters ai_should_run
\* returns allowed = False; the reason is "operational_base_reply" when no
\* earlier rule applies, that is when the conversation is not paused, the
\* reply is not empty after trimming, the user text does not contain
\* "atendente", step is neither handoff_collect nor lead_captured, there is
\* no unsaved lead and the reply has no menu shape.
C23_ShortNotRewritten ==
  (IsGate /\ BaseLen <= 45) =>
     /\ ~ turn.passed
     /\ (~ EarlierRule /\ ~ _has_menu_shape(turn.reply[1]))
          => turn.label = "operational_base_reply"

\* a reply of exactly 45 characters without any flow keyword, held back
C23_Witness ==
  /\ IsGate
  /\ turn.reply = Some(REPLY_45)
  /\ turn.text = <<"oi">>
  /\ turn.state.step = "menu"
  /\ ~ turn.passed
  /\ turn.label = "operational_base_reply"

----------------------------------------------------------------------------
(* main.py : extract_payload on parsed JSON of any type *)

\* JSON values: a string, a number, null (also a missing key)
Jstr(s) == [t |-> "str", s |-> s]
Jint(s) == [t |-> "int", s |-> s]
Jnull == [t |-> "null", s |-> ""]

\* truth value of a JSON value in Python
Truthy(j) == (j.t = "str" /\ j.s /= "") \/ (j.t = "int" /\ j.s /= "0")

\* a or b
Or(a, b) == IF Truthy(a) THEN a ELSE b

\* main.extract_text for a message that is a dict with at most the key
\* "conversation", a string, or missing
extract_text(message_t, conversation) ==
  IF message_t /= "dict" THEN Jstr("")
  ELSE IF Truthy(conversation) THEN conversation
  ELSE Jstr("")

\* main.extract_payload: p holds the types and values of payload["instance"],
\* payload["data"], data["key"], key["id"], key["remoteJid"],
\* data["message"], message["conversation"] and payload["event"]; raised
\* says that a .get, .strip or .lower met a value without that method
extract_payload_json(p) ==
  LET instance == Or(p.instance, Jstr(""))
      \* d = payload.get("data") or payload
      d_is_dict == p.data_t \in {"dict", "null"}
      has == p.data_t = "dict"
      \* key = (d.get("key") or {}) if isinstance(d, dict) else {}
      key_is_dict == ~ (has /\ p.key_t = "str")
      key_id == IF has /\ p.key_t = "dict" THEN p.key_id ELSE Jnull
      key_remote == IF has /\ p.key_t = "dict" THEN p.remoteJid ELSE Jnull
      \* key.get("id") or d.get("messageId") or d.get("id") or ""
      id_raises == ~ key_is_dict \/ (~ Truthy(key_id) /\ ~ d_is_dict)
      message_id == Or(key_id, Jstr(""))
      remote == IF d_is_dict THEN Or(key_remote, Jstr("")) ELSE Jstr("")
      text == extract_text(IF has THEN p.message_t ELSE "null", p.conversation)
      event == Or(p.event, Jstr(""))
      raised == \/ instance.t /= "str"
                \/ id_raises
                \/ message_id.t /= "str"
                \/ remote.t /= "str"
                \/ text.t /= "str"
                \/ event.t /= "str"
  IN IF raised
     THEN [raised |-> TRUE, instance |-> "", message_id |-> "", number |-> "", text |-> ""]
     ELSE [raised |-> FALSE,
           instance |-> StripStr(instance.s),
           message_id |-> StripStr(message_id.s),
           number |-> StripJid(remote.s),
           text |-> StripStr(text.s)]

----------------------------------------------------------------------------
(* Specification of the normaliser: extract_payload applied to payloads    *)
(* whose fields are missing or hold a value of another type                *)

Scalars(s) == {Jstr(s), Jint("7"), Jnull}

JsonPayloads ==
  [instance : Scalars("inst1"),
   data_t : {"null", "str", "dict"},
   key_t : {"null", "str", "dict"},
   key_id : Scalars("m1"),
   remoteJid : {Jstr("n1@s.whatsapp.net"), Jnull},
   message_t : {"null", "str", "dict"},
   conversation : Scalars("oi"),
   event : {Jstr("messages.upsert"), Jint("7")}]

\* the fields under a missing or non-dict parent do not exist
Canonical(p) ==
  /\ (p.data_t /= "dict" => p.key_t = "null" /\ p.message_t = "null")
  /\ (p.key_t /= "dict" => p.key_id = Jnull /\ p.remoteJid = Jnull)
  /\ (p.message_t /= "dict" => p.conversation = Jnull)

InitPayload ==
  /\ InitStores
  /\ now = MONDAY_10H
  /\ config = DefaultConfig

\* one payload normalised
ExtractCall ==
  \E p \in JsonPayloads :
    LET x == extract_payload_json(p)
    IN /\ Canonical(p)
       /\ turn' = [NoTurn EXCEPT !.op = "extract_payload", !.captured = Some(p),
                                 !.capture_error = x.raised, !.agent_id = x.instance,
                                 !.message_id = x.message_id, !.number = x.number,
                                 !.label = x.text]
       /\ UNCHANGED <<now, seen_ids, user_state, events, leads, rules_json, cache, config, conv, hist, inflight>>

NextPayload == ExtractCall

SpecPayload == InitPayload /\ [][NextPayload]_vars

\* C25: extract_payload never raises: for every parsed JSON payload, also
\* when data, key, message or id are missing or of an unexpected type, it
\* returns a record, with empty fields for what it could not read.
C25_NeverRaises ==
  turn.op = "extract_payload" => ~ turn.capture_error

----------------------------------------------------------------------------
(* Properties of the status of a lead row *)

\* first contact -> intent detected -> handoff
StatusRank(status) ==
  CASE status = "primeiro_contato" -> 0
    [] status = "lead_quente" -> 1
    [] status = "aguardando_atendente" -> 2

\* C26: the status of a lead row only moves forward along primeiro_contato
\* -> lead_quente -> aguardando_atendente: no call of ensure_first_contact,
\* mark_intent or save_handoff_lead lowers it, so a row that
\* save_handoff_lead set to aguardando_atendente keeps that status.
C26_StatusForward ==
  [][\A i \in 1..Len(leads) :
       /\ i <= Len(leads')
       /\ StatusRank(leads'[i].status) >= StatusRank(leads[i].status)]_vars

\* mark_intent has just recorded an intent on a row that was saved as a
\* handoff before, and the row still waits for the attendant
C26_Witness ==
  /\ turn.op = "mark_intent"
  /\ ~ turn.capture_error
  /\ \E i \in 1..Len(leads) :
       /\ leads[i].status = "aguardando_atendente"
       /\ leads[i].lead_saved
       /\ leads[i].origem = "intencao"
       /\ leads[i].intent_detected /= <<>>

----------------------------------------------------------------------------
(* Specification of the seen set: deliveries of sender n1 with and without *)
(* ids, with and without text, mixed with noise that carries the same ids, *)
(* in a burst long enough to exhaust the rate limiter                      *)

SeenIds == {"", "m1", "m2"}

SeenDeliveries ==
  UNION {
    {[Plain EXCEPT !.message_id = m, !.text = <<"2">>],
     [Plain EXCEPT !.message_id = m, !.text = <<>>],
     [Plain EXCEPT !.message_id = m, !.event = "messages.update"],
     [Plain EXCEPT !.message_id = m, !.status = "delivery_ack", !.text = <<>>],
     [Plain EXCEPT !.message_id = m, !.from_me = TRUE],
     [Plain EXCEPT !.message_id = m, !.remote = "n1@g.us"],
     [Plain EXCEPT !.message_id = m, !.instance = "instX"]}
    : m \in SeenIds }

InitSeen ==
  /\ InitStores
  /\ now = MONDAY_10H
  /\ config = DefaultConfig

SeenDeliver == \E d \in SeenDeliveries : Webhook(d, Healthy)

NextSeen == SeenDeliver

SpecSeen == InitSeen /\ [][NextSeen]_vars

\* the drops that come after the dedup check, and those that come before
LATE_DROPS == {"missing_number_or_text", "rate_limited"}
EARLY_DROPS ==
  {"bad_json", "simulator_disabled", "simulator_unauthorized", "missing_instance",
   "unknown_instance", "update", "ack/status_no_text", "from_me_or_group"}

IsWebhook == turn'.op = "webhook"

\* C28 as stated: a delivery with a non-empty id that is dropped as
\* missing_number_or_text or rate_limited has its id in the seen set
\* afterwards, so a redelivery of the same id is dropped as dedup and does
\* not reach the rule engine; deliveries dropped earlier never record
\* their id.
C28_RedeliveryIsDedup ==
  [][IsWebhook =>
       /\ (turn'.label \in LATE_DROPS /\ turn'.message_id /= "")
            => turn'.message_id \in seen_ids'
       /\ (turn.op = "webhook" /\ turn.label \in LATE_DROPS /\ turn.message_id /= ""
             /\ turn'.message_id = turn.message_id)
            => (turn'.label = "dedup" /\ ~ turn'.engine)
       /\ turn'.label \in EARLY_DROPS => seen_ids' = seen_ids]_vars

\* C28 amended: a delivery with a non-empty id that is dropped as
\* missing_number_or_text or rate_limited has its id in the seen set
\* afterwards; a later delivery with a recorded id never reaches the rule
\* engine, and it is dropped as dedup when it gets past the filters that
\* precede the dedup check (otherwise it is dropped with the reason of that
\* filter); deliveries dropped by those filters never record their id.
C28_SeenBeforeLateDrops ==
  [][IsWebhook =>
       /\ (turn'.label \in LATE_DROPS /\ turn'.message_id /= "")
            => turn'.message_id \in seen_ids'
       /\ (turn'.message_id /= "" /\ turn'.message_id \in seen_ids)
            => /\ ~ turn'.engine
               /\ turn'.label \in EARLY_DROPS \cup {"dedup"}
               /\ turn'.label = "dedup" <=> turn'.resp.ignored = "dedup"
       /\ turn'.label \in EARLY_DROPS => seen_ids' = seen_ids]_vars

\* no delivery has passed the limiter, so both ids were recorded by
\* deliveries dropped as missing_number_or_text, and the redelivery of m2,
\* now with a text, is dropped as dedup
C28_Witness ==
  /\ turn.op = "webhook"
  /\ turn.label = "dedup"
  /\ turn.message_id = "m2"
  /\ turn.text = <<"2">>
  /\ seen_ids = {"m1", "m2"}
  /\ hist.accepted["n1"] = <<>>
  /\ hist.past_noise = {"m1", "m2"}

----------------------------------------------------------------------------
(* Specification of two webhook requests of one sender in flight: each is  *)
(* suspended at  await req.json()  and at  await evo.send_text(..)  and    *)
(* runs without suspension in between, so the two interleave at these      *)
(* points in every order                                                   *)

FlightTexts == {<<"1">>, <<"MENU">>, <<"Atendente">>, LEAD_ANA}

FlightEnvs == {Healthy, [Healthy EXCEPT !.save_fails = TRUE], [Healthy EXCEPT !.send_fails = TRUE]}

InitFlight ==
  /\ InitStores
  /\ now = MONDAY_10H
  /\ config = DefaultConfig

\* the request arrives and the handler waits for the body
Receive(i) ==
  /\ inflight[i].pc = "none"
  /\ \E t \in FlightTexts, env \in FlightEnvs :
       inflight' = [inflight EXCEPT ![i] = [@ EXCEPT !.pc = "body", !.env = env,
                                                      !.d = [Plain EXCEPT !.text = t]]]
  /\ UNCHANGED <<now, seen_ids, user_state, events, leads, rules_json, cache, config, turn,
                 conv, hist>>

\* the body is there: the handler runs up to the transport send, or to its
\* return when it sends nothing
Handle(i) ==
  /\ inflight[i].pc = "body"
  /\ Handler(inflight[i].d, inflight[i].env)
  /\ inflight' = [inflight EXCEPT ![i] =
                    [@ EXCEPT !.pc = IF HasCall(turn', "send_text") THEN "send" ELSE "done",
                              !.read = StateOf(user_state, turn'.agent_id, turn'.number),
                              !.left = turn'.state,
                              !.engine = turn'.engine,
                              !.saved = HasCall(turn', "save_handoff_lead")]]

\* the transport answers and the handler returns
Sent(i) ==
  /\ inflight[i].pc = "send"
  /\ inflight' = [inflight EXCEPT ![i].pc = "done"]
  /\ UNCHANGED <<now, seen_ids, user_state, events, leads, rules_json, cache, config, turn,
                 conv, hist>>

NextFlight == \E i \in Flights : Receive(i) \/ Handle(i) \/ Sent(i)

SpecFlight == InitFlight /\ [][NextFlight]_vars

Handled(f) == f.pc \in {"send", "done"} /\ f.engine

\* C29: when two deliveries of one sender interleave at the suspension
\* points of the handler, a captured lead is saved by at most one of them
\* and no update to step, lead or lead_saved is lost: the delivery handled
\* second starts from the step, lead and lead_saved that the first left.
C29_NoLostUpdate ==
  [][/\ Cardinality({j \in Flights : inflight'[j].saved}) <= 1
     /\ \A i \in Flights : \A j \in Flights \ {i} :
          (inflight[i].pc = "body" /\ Handled(inflight'[i]) /\ Handled(inflight[j])) =>
             /\ inflight'[i].read.step = inflight[j].left.step
             /\ inflight'[i].read.lead = inflight[j].left.lead
             /\ inflight'[i].read.lead_saved = inflight[j].left.lead_saved]_vars

====
